---- MODULE Spec2Model ----
(***************************************************************************)
(* Indexing pipeline of sentient-brain-py-server: parser plugins, the      *)
(* parser registry, CodeGraphService (persist_graph, chunk sync,           *)
(* process_file, backpopulate_missing_chunks) and the file watcher.        *)
(*                                                                         *)
(* Strings that the code builds by concatenation (paths, node ids, names)  *)
(* are sequences of string tokens, so that f"{a}:{b}" is a \o <<":">> \o b.*)
(***************************************************************************)
EXTENDS Integers, Sequences, FiniteSets, TLC

(***************************************************************************)
(* Bounds                                                                  *)
(***************************************************************************)
MaxConstructs == 3

MaxTsConstructs == 2

(***************************************************************************)
(* Source text.  A text is its number of lines and the pre-order list of   *)
(* the constructs the parsers react to; parent is the index of the         *)
(* innermost enclosing construct (0: module level).  An "import" names one *)
(* symbol (import f; import x from 'f'), an "import2" two (import f, h;    *)
(* import {x, h} from 'f').                                                *)
(***************************************************************************)
NoName == "<none>"

PyKinds == {"class", "func", "import", "import2"}

TsKinds == {"class", "func", "method", "import", "import2"}

PyNames == {"f", "g"}

TsNames == {"f", NoName}

Range(s) == {s[i] : i \in 1..Len(s)}

Max(a, b) == IF a >= b THEN a ELSE b

Min(a, b) == IF a <= b THEN a ELSE b

RECURSIVE AncestorsOrSelf(_, _)
AncestorsOrSelf(items, i) ==
    IF i = 0 THEN {} ELSE {i} \cup AncestorsOrSelf(items, items[i].parent)

OpenScopes(items) ==
    {0} \cup {j \in AncestorsOrSelf(items, Len(items)) :
                    items[j].kind \notin {"import", "import2"}}

LastLine(items) == IF items = <<>> THEN 0 ELSE items[Len(items)].line

AppendItem(items, it) ==
    LET anc == AncestorsOrSelf(items, it.parent)
        grown == [j \in 1..Len(items) |->
                    IF j \in anc
                    THEN [items[j] EXCEPT !.end = Max(items[j].end, it.end)]
                    ELSE items[j]]
    IN Append(grown, it)

Extensions(items, kinds, names, steps) ==
    {it \in {[kind |-> k, name |-> n, parent |-> p, line |-> l, end |-> l] :
                k \in kinds, n \in names, p \in OpenScopes(items),
                l \in {Max(1, LastLine(items) + d) : d \in steps}} :
        it.kind = "import2" => it.name = "f"}

RECURSIVE ItemLists(_, _, _, _)
ItemLists(n, kinds, names, steps) ==
    IF n = 0 THEN {<<>>}
    ELSE LET shorter == ItemLists(n - 1, kinds, names, steps)
         IN shorter \cup
            UNION {{AppendItem(s, it) : it \in Extensions(s, kinds, names, steps)} :
                     s \in {t \in shorter : Len(t) = n - 1}}

RECURSIVE MaxEnd(_, _)
MaxEnd(items, i) == IF i = 0 THEN 0 ELSE Max(items[i].end, MaxEnd(items, i - 1))

Text(items) == [ok |-> TRUE, items |-> items, nlines |-> MaxEnd(items, Len(items))]

SyntaxErrorText == [ok |-> FALSE, items |-> <<>>, nlines |-> 1]

PySources == {Text(s) : s \in ItemLists(MaxConstructs, PyKinds, PyNames, {1})}
                \cup {SyntaxErrorText}

TsSources == {Text(s) : s \in ItemLists(MaxTsConstructs, TsKinds, TsNames, {0, 1})}
                \cup {SyntaxErrorText}

(***************************************************************************)
(* models/graph_models.py                                                  *)
(***************************************************************************)
NodeType == {"FILE", "CLASS", "FUNCTION", "METHOD", "IMPORT", "VARIABLE"}

RelationshipType == {"CONTAINS", "IMPORTS", "CALLS", "DEFINES", "INSTANTIATES"}

NoMetadata == <<>>

CodeNode(id, node_type, name, start_line, end_line) ==
    [id |-> id, node_type |-> node_type, name |-> name,
     start_line |-> start_line, end_line |-> end_line, metadata |-> NoMetadata]

CodeRelationship(source_id, target_id, type) ==
    [source_id |-> source_id, target_id |-> target_id, type |-> type,
     metadata |-> NoMetadata]

(***************************************************************************)
(* The visitors' self.nodes: a dict keyed by id, in insertion order.       *)
(***************************************************************************)
DictHas(nodes, id) == \E i \in 1..Len(nodes) : nodes[i].id = id

DictGet(nodes, id) == nodes[CHOOSE i \in 1..Len(nodes) : nodes[i].id = id]

DictSet(nodes, n) ==
    IF DictHas(nodes, n.id)
    THEN [i \in 1..Len(nodes) |-> IF nodes[i].id = n.id THEN n ELSE nodes[i]]
    ELSE Append(nodes, n)

RECURSIVE LastIndexOf(_, _, _)
LastIndexOf(s, tok, i) ==
    IF i = 0 THEN 0 ELSE IF s[i] = tok THEN i ELSE LastIndexOf(s, tok, i - 1)

BaseName(file_path) ==
    SubSeq(file_path, LastIndexOf(file_path, "/", Len(file_path)) + 1, Len(file_path))

FileNode(file_path, text) ==
    CodeNode(file_path, "FILE", BaseName(file_path), 1, text.nlines)

VisitorInit(file_path, text) ==
    [nodes |-> <<FileNode(file_path, text)>>, relationships |-> <<>>, pushed |-> <<>>]

ScopeTop(file_path, st, it) ==
    IF it.parent = 0 THEN file_path ELSE st.pushed[it.parent]

Emit(st, node, parent_id, reltype, push) ==
    [nodes |-> DictSet(st.nodes, node),
     relationships |-> Append(st.relationships,
                              CodeRelationship(parent_id, node.id, reltype)),
     pushed |-> Append(st.pushed, push)]

(***************************************************************************)
(* parsers/python_parser.py                                                *)
(***************************************************************************)
PyClassId(file_path, parent_id, name) == file_path \o <<":", name>>

PyFunctionId(file_path, parent_id, name, is_method) ==
    IF is_method THEN parent_id \o <<":", name>> ELSE file_path \o <<":", name>>

PyVisitClassDef(file_path, st, it) ==
    LET parent_id == ScopeTop(file_path, st, it)
        class_node_id == PyClassId(file_path, parent_id, it.name)
    IN Emit(st, CodeNode(class_node_id, "CLASS", <<it.name>>, it.line, it.end),
            parent_id, "CONTAINS", class_node_id)

PyVisitFunctionDef(file_path, st, it) ==
    LET parent_id == ScopeTop(file_path, st, it)
        is_method == DictHas(st.nodes, parent_id)
                        /\ DictGet(st.nodes, parent_id).node_type = "CLASS"
        function_node_id == PyFunctionId(file_path, parent_id, it.name, is_method)
    IN Emit(st, CodeNode(function_node_id,
                         IF is_method THEN "METHOD" ELSE "FUNCTION",
                         <<it.name>>, it.line, it.end),
            parent_id, "CONTAINS", function_node_id)

PyVisitImport(file_path, st, it) ==
    LET names == IF it.kind = "import2" THEN <<it.name, "h">> ELSE <<it.name>>
        RECURSIVE ForAlias(_, _)
        ForAlias(s, k) ==
            IF k > Len(names) THEN s
            ELSE LET import_node_id == <<"import", ":", names[k]>>
                 IN ForAlias([s EXCEPT
                        !.nodes = DictSet(s.nodes,
                                          CodeNode(import_node_id, "IMPORT",
                                                   <<names[k]>>, it.line, it.line)),
                        !.relationships = Append(s.relationships,
                                                 CodeRelationship(file_path,
                                                                  import_node_id,
                                                                  "IMPORTS"))],
                             k + 1)
    IN [ForAlias(st, 1) EXCEPT !.pushed = Append(st.pushed, <<>>)]

RECURSIVE PyVisit(_, _, _, _)
PyVisit(file_path, items, i, st) ==
    IF i > Len(items) THEN st
    ELSE PyVisit(file_path, items, i + 1,
                 CASE items[i].kind = "class" -> PyVisitClassDef(file_path, st, items[i])
                   [] items[i].kind = "func" -> PyVisitFunctionDef(file_path, st, items[i])
                   [] OTHER -> PyVisitImport(file_path, st, items[i]))

\* variant: no except SyntaxError; the visitor's nodes are returned for any
\* text, as an error-tolerant parser would
PythonParseLenient(file_path, text) ==
    LET v == PyVisit(file_path, text.items, 1, VisitorInit(file_path, text))
    IN [nodes |-> v.nodes, relationships |-> v.relationships]

PythonParse(file_path, text) ==
    IF ~text.ok
    THEN [nodes |-> <<>>, relationships |-> <<>>]
    ELSE LET v == PyVisit(file_path, text.items, 1, VisitorInit(file_path, text))
         IN [nodes |-> v.nodes, relationships |-> v.relationships]

(***************************************************************************)
(* parsers/typescript_parser.py                                            *)
(***************************************************************************)
TsFuncName(it) ==
    IF it.name = NoName THEN <<"anonymous_", ToString(it.line - 1)>> ELSE <<it.name>>

TsClassName(it) ==
    IF it.name = NoName THEN <<"anonymous_class_", ToString(it.line - 1)>> ELSE <<it.name>>

TsProcessFunctionNode(file_path, st, it, is_method) ==
    LET func_name == TsFuncName(it)
        parent_id == ScopeTop(file_path, st, it)
        actual_is_method == is_method
                               \/ (DictHas(st.nodes, parent_id)
                                     /\ DictGet(st.nodes, parent_id).node_type = "CLASS")
        function_node_id == IF actual_is_method
                            THEN parent_id \o <<":">> \o func_name
                            ELSE file_path \o <<":">> \o func_name
    IN Emit(st, CodeNode(function_node_id,
                         IF actual_is_method THEN "METHOD" ELSE "FUNCTION",
                         func_name, it.line, it.end),
            parent_id, "CONTAINS", function_node_id)

TsProcessClassNode(file_path, st, it) ==
    LET class_name == TsClassName(it)
        class_node_id == file_path \o <<":">> \o class_name
        parent_id == ScopeTop(file_path, st, it)
    IN Emit(st, CodeNode(class_node_id, "CLASS", class_name, it.line, it.end),
            parent_id, "CONTAINS", class_node_id)

TsProcessImportNode(file_path, st, it) ==
    LET module_name == IF it.name = NoName THEN "unknown" ELSE it.name
        import_node_id == <<"import", ":", module_name>>
    IN Emit(st, CodeNode(import_node_id, "IMPORT", <<module_name>>, it.line, it.end),
            file_path, "IMPORTS", <<>>)

RECURSIVE TsVisit(_, _, _, _)
TsVisit(file_path, items, i, st) ==
    IF i > Len(items) THEN st
    ELSE TsVisit(file_path, items, i + 1,
                 CASE items[i].kind = "func" ->
                        TsProcessFunctionNode(file_path, st, items[i], FALSE)
                   [] items[i].kind = "method" ->
                        TsProcessFunctionNode(file_path, st, items[i], TRUE)
                   [] items[i].kind = "class" ->
                        TsProcessClassNode(file_path, st, items[i])
                   [] OTHER -> TsProcessImportNode(file_path, st, items[i]))

TypeScriptParse(file_path, text) ==
    LET v == TsVisit(file_path, text.items, 1, VisitorInit(file_path, text))
    IN [nodes |-> v.nodes, relationships |-> v.relationships]

(***************************************************************************)
(* parsers/registry.py                                                     *)
(***************************************************************************)
ExtTokens == {".py", ".PY", ".rb", ".ts", ".tsx", ".js", ".jsx", ".mjs", ".cjs"}

SplitExt(file_path) ==
    IF Len(file_path) > 1 /\ file_path[Len(file_path)] \in ExtTokens
    THEN file_path[Len(file_path)]
    ELSE ""

Lower(ext) == IF ext = ".PY" THEN ".py" ELSE ext

NoParser == "<no parser>"

Parsers == <<"python">>

\* variant: a plugin that claims every extension
SupportsAnyExtension(parser, ext) == TRUE

SupportsExtension(parser, ext) ==
    CASE parser = "python" -> Lower(ext) \in {".py"}
      [] parser = "typescript" ->
            Lower(ext) \in {".ts", ".tsx", ".js", ".jsx", ".mjs", ".cjs"}
      [] OTHER -> FALSE

RECURSIVE FirstSupporting(_, _, _)
FirstSupporting(parsers, ext, i) ==
    IF i > Len(parsers) THEN NoParser
    ELSE IF SupportsExtension(parsers[i], ext) THEN parsers[i]
    ELSE FirstSupporting(parsers, ext, i + 1)

GetParserForExt(ext) == FirstSupporting(Parsers, ext, 1)

(***************************************************************************)
(* services/metadata_extractor.py (a configuration without matching rule)  *)
(***************************************************************************)
GetLanguage(file_path) ==
    LET ext == Lower(SplitExt(file_path))
    IN CASE ext = ".py" -> "Python"
         [] ext = ".js" -> "JavaScript"
         [] ext = ".ts" -> "TypeScript"
         [] ext = ".rb" -> "Ruby"
         [] ext = ".jsx" -> "JSX"
         [] ext = ".tsx" -> "TSX"
         [] OTHER -> "Text"

ExtractMetadata(file_path) ==
    [language |-> GetLanguage(file_path), domain |-> "Unknown",
     role |-> "Unknown", tags |-> <<>>]

(***************************************************************************)
(* The graph store.  A stored node is (id property, ordinal among the      *)
(* nodes carrying that id, properties); a stored edge joins two stored     *)
(* nodes.  Each session.run is one statement executed by the store.        *)
(***************************************************************************)
Override(old, new) ==
    [k \in (DOMAIN old) \cup (DOMAIN new) |-> IF k \in DOMAIN new THEN new[k] ELSE old[k]]

NodesWithId(gn, id) == {n \in gn : n.id = id}

NodeKey(n) == <<n.id, n.k>>

\* the match of MERGE (n {id: $id}): is there a node with this id property
MatchNode(gn, id) == NodesWithId(gn, id) # {}

\* the create of MERGE: a new node with the id, then the SET clause
CreateNode(gn, id, props, node_type) ==
    gn \cup {[id |-> id, k |-> Cardinality(NodesWithId(gn, id)) + 1,
              props |-> Override(props, [node_type |-> node_type])]}

\* the SET clause on every node the pattern matches
SetNodes(gn, id, props, node_type) ==
    LET set == Override(props, [node_type |-> node_type])
    IN {IF n.id = id THEN [n EXCEPT !.props = Override(n.props, set)] ELSE n : n \in gn}

IsPrefix(a, b) == Len(a) <= Len(b) /\ SubSeq(b, 1, Len(a)) = a

\* variant: upserting a FILE node first deletes the nodes stored under it
MergeNodeClearingFile(gn, id, props, node_type, matched) ==
    LET kept == IF node_type = "FILE"
                THEN {n \in gn : n.id = id \/ ~IsPrefix(id, n.id)}
                ELSE gn
    IN IF matched
       THEN SetNodes(kept, id, props, node_type)
       ELSE CreateNode(kept, id, props, node_type)

\* MERGE (n {id: $id}) SET n += $props, n.node_type = $node_type
\* matched: what the statement's match found.  The pattern has no label and
\* the store holds no uniqueness constraint, so the statement takes no lock
\* between its match and its create: a node that another transaction
\* creates after the match is not seen.
MergeNode(gn, id, props, node_type, matched) ==
    IF matched
    THEN SetNodes(gn, id, props, node_type)
    ELSE CreateNode(gn, id, props, node_type)

EdgesBetween(ge, a, b, type) ==
    {e \in ge : e.a = a /\ e.b = b /\ e.label = type /\ e.props.type = type}

\* variant: MATCH (a), (b) CREATE (a)-[r:<type> {type: $type}]->(b)
CreateEdge(gn, ge, rel) ==
    ge \cup {[a |-> NodeKey(a), b |-> NodeKey(b), label |-> rel.type,
              k |-> Cardinality(EdgesBetween(ge, NodeKey(a), NodeKey(b), rel.type)) + 1,
              props |-> [type |-> rel.type]] :
                a \in NodesWithId(gn, rel.source_id),
                b \in NodesWithId(gn, rel.target_id)}

\* MATCH (a {id: $source_id}), (b {id: $target_id})
\* MERGE (a)-[r:<type> {type: $type}]->(b)  [SET r += $props]
\* (merging a relationship between bound nodes locks both nodes: one step)
MergeEdge(gn, ge, rel) ==
    LET pairs == {<<NodeKey(a), NodeKey(b)>> :
                    a \in NodesWithId(gn, rel.source_id),
                    b \in NodesWithId(gn, rel.target_id)}
        lacking == {p \in pairs : EdgesBetween(ge, p[1], p[2], rel.type) = {}}
        created == {[a |-> p[1], b |-> p[2], label |-> rel.type, k |-> 1,
                     props |-> [type |-> rel.type]] : p \in lacking}
        merged == ge \cup created
    IN IF rel.metadata # NoMetadata
       THEN {IF <<e.a, e.b>> \in pairs /\ e.label = rel.type /\ e.props.type = rel.type
             THEN [e EXCEPT !.props = Override(e.props, rel.metadata)] ELSE e :
                e \in merged}
       ELSE merged

\* node.model_dump(exclude={"id", "node_type", "metadata"}), plus the file
\* metadata on the FILE node
BaseProps(node, file_metadata) ==
    LET base == [name |-> node.name, start_line |-> node.start_line,
                 end_line |-> node.end_line]
    IN IF node.node_type = "FILE" THEN Override(base, file_metadata) ELSE base

\* commit_hash of process_file when the caller gives none
NoCommit == ""

CommitHashes == {"c1"}

CommitNodes(gn) == {n \in gn : "hash" \in DOMAIN n.props}

\* MATCH (f:File {id: $file_id}): persist_graph merges its nodes without a
\* label, so no stored node carries the label File
FileLabelled(gn, id) == {n \in NodesWithId(gn, id) : "File" \in {}}

\* link_file_to_commit: MERGE (c:Commit {hash: $hash}) ON CREATE SET ...
\* WITH c MATCH (f:File {id: $file_id}) MERGE (c)-[:MODIFIED]->(f)
LinkFileToCommit(gn, ge, file_path, commit_hash) ==
    LET found == {n \in CommitNodes(gn) : n.props.hash = commit_hash}
        nodes == IF found # {} THEN gn
                 ELSE gn \cup {[id |-> <<>>, k |-> 1,
                                 props |-> [hash |-> commit_hash, author |-> ""]]}
        commits == {n \in CommitNodes(nodes) : n.props.hash = commit_hash}
        modified == {[a |-> c, b |-> NodeKey(f), label |-> "MODIFIED", k |-> 1,
                      props |-> <<>>] :
                        c \in {<<n.props.hash, n.k>> : n \in commits},
                        f \in FileLabelled(nodes, file_path)}
    IN [nodes |-> nodes, edges |-> ge \cup modified]

(***************************************************************************)
(* services/code_graph_service.py: chunk sync                              *)
(***************************************************************************)
\* the members named by the filter of sync_code_chunks_to_weaviate
EmbedTypeNames == <<"CLASS", "FUNCTION", "METHOD", "BLOCK">>

\* NodeType.<name> for a name that is no member raises AttributeError; the
\* filter list is built once per node of the list that is filtered
FilterRaises(nodes) ==
    nodes # <<>> /\ \E i \in 1..Len(EmbedTypeNames) : EmbedTypeNames[i] \notin NodeType

IsEmbeddable(n) == n.node_type \in Range(EmbedTypeNames)

NodesToEmbed(nodes) == SelectSeq(nodes, IsEmbeddable)

\* "\n".join(source_lines[start:end])
Slice(text, start_line, end_line) ==
    LET start == Max(0, start_line - 1)
        end == Min(text.nlines, end_line)
    IN [of |-> text, from |-> start, to |-> end]

ContentsToEmbed(text, nodes) ==
    [i \in 1..Len(nodes) |-> Slice(text, nodes[i].start_line, nodes[i].end_line)]

Embed(texts) == [i \in 1..Len(texts) |-> [vector_of |-> texts[i]]]

(***************************************************************************)
(* embedding/gemini.py, embedding/local_hf.py, embedding/embedder.py       *)
(***************************************************************************)
MaxBatch == 3

\* GeminiEmbedder.embed: the client call answers with one embedding per
\* content, in order, or raises; except Exception: one [] per text
GeminiEmbed(texts, response) ==
    IF response = "raises"
    THEN [raised |-> FALSE, vectors |-> [i \in 1..Len(texts) |-> <<>>]]
    ELSE [raised |-> FALSE, vectors |-> Embed(texts)]

\* LocalHFEmbedder.embed: self.model.encode(...).tolist(), with nothing
\* around it that catches
LocalEmbed(texts, response) ==
    IF response = "raises"
    THEN [raised |-> TRUE, vectors |-> <<>>]
    ELSE [raised |-> FALSE, vectors |-> Embed(texts)]

\* variant: get_embedder that returns the remote provider it constructed
\* without the test embed
GetEmbedderUnprobed(provider, gemini_init, response, local_init) ==
    LET name == CASE provider \in {"", "gemini", "Gemini"} -> "gemini"
                  [] OTHER -> provider
        local == IF local_init = "raises"
                 THEN [raised |-> TRUE, embedder |-> ""]
                 ELSE [raised |-> FALSE, embedder |-> "local_hf"]
    IN CASE name = "gemini" ->
               IF gemini_init = "raises"
               THEN [tried |-> <<"gemini", "local_hf">>] @@ local
               ELSE [tried |-> <<"gemini">>, raised |-> FALSE, embedder |-> "gemini"]
         [] name = "local_hf" -> [tried |-> <<"local_hf">>] @@ local
         [] OTHER -> [tried |-> <<>>, raised |-> TRUE, embedder |-> ""]

\* get_embedder: os.getenv("EMBEDDING_PROVIDER", "gemini").lower() ("": the
\* variable is not set); gemini_init, local_init: what the constructors do;
\* response: what the remote service does with the test embed
GetEmbedder(provider, gemini_init, response, local_init) ==
    LET name == CASE provider \in {"", "gemini", "Gemini"} -> "gemini"
                  [] OTHER -> provider
        local == IF local_init = "raises"
                 THEN [raised |-> TRUE, embedder |-> ""]
                 ELSE [raised |-> FALSE, embedder |-> "local_hf"]
        test_result == GeminiEmbed(<<"test">>, response)
    IN CASE name = "gemini" ->
               IF gemini_init = "raises"
               THEN [tried |-> <<"gemini", "local_hf">>] @@ local
               ELSE IF test_result.raised \/ test_result.vectors = <<>>
                          \/ test_result.vectors[1] = <<>>
                    THEN [tried |-> <<"gemini", "local_hf">>] @@ local
                    ELSE [tried |-> <<"gemini">>, raised |-> FALSE, embedder |-> "gemini"]
         [] name = "local_hf" -> [tried |-> <<"local_hf">>] @@ local
         [] OTHER -> [tried |-> <<>>, raised |-> TRUE, embedder |-> ""]

Chunk(uuid, source_id, file_path, node_type, name, start_line, end_line, content, vector) ==
    [uuid |-> uuid,
     properties |-> [source_id |-> source_id, file_path |-> file_path,
                     node_type |-> node_type, name |-> name,
                     start_line |-> start_line, end_line |-> end_line,
                     content |-> content],
     vector |-> vector]

\* code_chunk_collection.data.insert(properties=..., vector=..., uuid=...)
InsertChunk(coll, chunk) == coll \cup {chunk}

(***************************************************************************)
(* State                                                                   *)
(***************************************************************************)
VARIABLES
    input,      \* parser harness: the (plugin, path, text) handed to parse()
    parsed,     \* parser harness: what parse() returned
    disk,       \* the watched tree: path -> [exists, text]
    gnodes,     \* graph store: nodes
    gedges,     \* graph store: relationships
    chunks,     \* vector store: the CodeChunk collection
    uuids,      \* number of uuid4() values drawn so far
    workers,    \* executions of process_file (watcher threads and direct calls)
    bp,         \* the execution of backpopulate_missing_chunks
    dispatched, \* number of process_file executions started so far
    passes,     \* number of reconciliation passes started so far
    lastUpsert, \* history: per node id, the properties of the latest upsert
    lastDone,   \* history: the process_file execution that finished last
    observer    \* the watcher's event-delivery thread and what its handlers logged

vars == <<input, parsed, observer, disk, gnodes, gedges, chunks, uuids, workers, bp,
          dispatched, passes, lastUpsert, lastDone>>

harness == <<input, parsed>>

pipeline == <<disk, gnodes, gedges, chunks, uuids, workers, bp,
              dispatched, passes, lastUpsert, lastDone>>

NumWorkers == 2

MaxRuns == 2

MaxPasses == 1

PyPath == <<"a", ".py">>

TsPath == <<"a", ".ts">>

RbPath == <<"b", ".rb">>

FilePaths == {PyPath, RbPath}

WorkerIds == 1..NumWorkers

NotParsed == [done |-> FALSE, nodes |-> <<>>, relationships |-> <<>>]

\* response: what the embedding provider does with the batches it is sent
NoInput == [plugin |-> "", path |-> <<>>, text |-> SyntaxErrorText, response |-> "answers"]

(***************************************************************************)
(* Texts the editor writes into the watched tree                           *)
(***************************************************************************)
Construct(kind, name, parent, line, end) ==
    [kind |-> kind, name |-> name, parent |-> parent, line |-> line, end |-> end]

ClassWithMethodText ==
    Text(<<Construct("class", "C", 0, 1, 3), Construct("func", "m", 1, 2, 3)>>)

FooText == Text(<<Construct("func", "foo", 0, 1, 2)>>)

BarText == Text(<<Construct("func", "bar", 0, 1, 3)>>)

DiskTexts == {FooText, BarText}

EditedPaths == {PyPath}

Absent == [exists |-> FALSE, text |-> SyntaxErrorText]

Present(text) == [exists |-> TRUE, text |-> text]

(***************************************************************************)
(* process_file executions                                                 *)
(***************************************************************************)
Snapshot(gn, ge) ==
    [ids |-> {n.id : n \in gn}, nodes |-> Cardinality(gn),
     edges |-> {<<e.a[1], e.b[1], e.label>> : e \in ge}, rels |-> Cardinality(ge)]

\* matched: whether the store held a node with the id of the next node
\* statement when the execution's previous step ended (the earliest moment
\* the statement's match can run)
\* direct: called by cli/process_file.py (TRUE) or run by a watcher thread;
\* commit: the commit_hash argument; failed: chunk inserts that raised;
\* dropped: graph upserts that raised
IdleWorker ==
    [pc |-> "idle", path |-> <<>>, text |-> SyntaxErrorText,
     nodes |-> <<>>, rels |-> <<>>, i |-> 0, ev |-> 0, matched |-> FALSE,
     direct |-> FALSE, commit |-> NoCommit, failed |-> 0, dropped |-> 0]

Active(w) == workers[w].pc # "idle"

BpActive == bp.pc \notin {"idle", "done"}

NoneActive == (\A w \in WorkerIds : ~Active(w)) /\ ~BpActive

FreeSlots == {w \in WorkerIds : ~Active(w)}

FirstFree == CHOOSE w \in FreeSlots : \A v \in FreeSlots : w <= v

NoRun ==
    [valid |-> FALSE, path |-> <<>>, text |-> SyntaxErrorText, ev |-> 0,
     direct |-> FALSE, commit |-> NoCommit, failed |-> 0, dropped |-> 0, outcome |-> ""]

\* _process_file_background: try: process_file(...) except Exception: print
ProcessFileBackground(outcome) == IF outcome = "raised" THEN "logged" ELSE outcome

\* variant: process_file itself catches and prints what its steps raise
SurfacedLogged(direct, outcome) == ProcessFileBackground(outcome)

\* how the end of process_file surfaces: to the direct caller as it is, in a
\* watcher thread through _process_file_background
Surfaced(direct, outcome) == IF direct THEN outcome ELSE ProcessFileBackground(outcome)

\* parse_code_to_graph
ParseCodeToGraph(file_path, source_code) ==
    LET parser == GetParserForExt(SplitExt(file_path))
    IN CASE parser = "python" -> PythonParse(file_path, source_code)
         [] parser = "typescript" -> TypeScriptParse(file_path, source_code)
         [] OTHER -> [nodes |-> <<>>, relationships |-> <<>>]

\* variant: process_file without "if not nodes and not relationships: return":
\* on an empty parse persist_graph and the chunk sync loop over nothing and
\* step 4 follows
SpawnPastEmptyParse(file_path, source_code, direct, commit_hash) ==
    /\ dispatched < MaxRuns
    /\ FreeSlots # {}
    /\ LET r == ParseCodeToGraph(file_path, source_code)
       IN workers' = [workers EXCEPT ![FirstFree] =
              [IdleWorker EXCEPT !.pc = IF r.nodes = <<>> THEN "link" ELSE "nodes",
                                 !.path = file_path, !.text = source_code, !.i = 1,
                                 !.nodes = r.nodes, !.rels = r.relationships,
                                 !.ev = dispatched + 1,
                                 !.direct = direct, !.commit = commit_hash,
                                 !.matched = r.nodes # <<>> /\ MatchNode(gnodes, r.nodes[1].id)]]
    /\ dispatched' = dispatched + 1
    /\ UNCHANGED <<disk, gnodes, gedges, chunks, uuids, bp, passes, lastUpsert, lastDone>>

\* variant: a handler that starts no thread for a path while an execution for
\* the same path is still running (coalescing)
SpawnCoalescing(file_path, source_code, direct, commit_hash) ==
    /\ dispatched < MaxRuns
    /\ FreeSlots # {}
    /\ LET r == ParseCodeToGraph(file_path, source_code)
       IN workers' =
             IF \E w \in WorkerIds : Active(w) /\ workers[w].path = file_path
             THEN workers
             ELSE [workers EXCEPT ![FirstFree] =
                      [IdleWorker EXCEPT !.pc = "nodes", !.path = file_path,
                                         !.text = source_code, !.i = 1,
                                         !.nodes = r.nodes, !.rels = r.relationships,
                                         !.ev = dispatched + 1,
                                         !.direct = direct, !.commit = commit_hash,
                                         !.matched = MatchNode(gnodes, r.nodes[1].id)]]
    /\ dispatched' = dispatched + 1
    /\ UNCHANGED <<disk, gnodes, gedges, chunks, uuids, bp, passes, lastUpsert, lastDone>>

\* threading.Thread(target=self._process_file_background, args=(file_path,
\* source_code)), and the steps of process_file that touch no store: metadata,
\* parse, and the early return on an empty parse
Spawn(file_path, source_code, direct, commit_hash) ==
    /\ dispatched < MaxRuns
    /\ FreeSlots # {}
    /\ LET r == ParseCodeToGraph(file_path, source_code)
       IN IF r.nodes = <<>> /\ r.relationships = <<>>
          THEN /\ lastDone' = [valid |-> TRUE, path |-> file_path, text |-> source_code,
                               ev |-> dispatched + 1, direct |-> direct,
                               commit |-> commit_hash, failed |-> 0, dropped |-> 0,
                               outcome |-> Surfaced(direct, "returned")]
               /\ UNCHANGED workers
          ELSE /\ workers' = [workers EXCEPT ![FirstFree] =
                       [IdleWorker EXCEPT !.pc = "nodes", !.path = file_path,
                                          !.text = source_code, !.i = 1,
                                          !.nodes = r.nodes, !.rels = r.relationships,
                                          !.ev = dispatched + 1,
                                          !.direct = direct, !.commit = commit_hash,
                                          !.matched = MatchNode(gnodes, r.nodes[1].id)]]
               /\ UNCHANGED lastDone
    /\ dispatched' = dispatched + 1
    /\ UNCHANGED <<disk, gnodes, gedges, chunks, uuids, bp, passes, lastUpsert>>

\* variant: no os.path.exists check and a read that yields the empty text
\* for a missing file instead of raising
HandlerProcessFileUnchecked(file_path) ==
    Spawn(file_path, disk[file_path].text, FALSE, NoCommit)

\* CodeChangeHandler._process_file
HandlerProcessFile(file_path) ==
    IF disk[file_path].exists
    THEN Spawn(file_path, disk[file_path].text, FALSE, NoCommit)
    ELSE UNCHANGED pipeline

\* on_modified / on_created, for a file event on a path that is not ignored
HandleChange(file_path) ==
    IF GetParserForExt(SplitExt(file_path)) # NoParser
    THEN HandlerProcessFile(file_path)
    ELSE UNCHANGED pipeline

\* the observer thread delivers events as long as it runs
OnModified ==
    \E p \in FilePaths :
        observer.alive /\ HandleChange(p) /\ UNCHANGED <<harness, observer>>

OnCreated ==
    \E p \in FilePaths :
        observer.alive /\ HandleChange(p) /\ UNCHANGED <<harness, observer>>

OnMoved ==
    \E src \in FilePaths, dest \in FilePaths :
        /\ observer.alive
        /\ src # dest
        /\ HandleChange(dest)
        /\ UNCHANGED <<harness, observer>>

OnDeleted == \E p \in FilePaths : observer.alive /\ UNCHANGED vars

\* cli/process_file.py main: a direct, synchronous call of process_file
Call(commit_hash) ==
    \E p \in FilePaths :
        /\ disk[p].exists
        /\ Spawn(p, disk[p].text, TRUE, commit_hash)
        /\ UNCHANGED <<harness, observer>>

\* without --commit-hash
DirectCall == Call(NoCommit)

\* with --commit-hash
DirectCallAtCommit == \E commit_hash \in CommitHashes : Call(commit_hash)

\* the execution ends (returns, or raises to its caller): its thread is gone;
\* the threads still running stay listed in the order they were started
Ended(w, outcome, dropped) ==
    /\ workers' = [v \in WorkerIds |->
                      IF v < w THEN workers[v]
                      ELSE IF v < NumWorkers THEN workers[v + 1] ELSE IdleWorker]
    /\ lastDone' = [valid |-> TRUE, path |-> workers[w].path, text |-> workers[w].text,
                    ev |-> workers[w].ev, direct |-> workers[w].direct,
                    commit |-> workers[w].commit, failed |-> workers[w].failed,
                    dropped |-> dropped,
                    outcome |-> Surfaced(workers[w].direct, outcome)]

Finish(w, outcome) == Ended(w, outcome, workers[w].dropped)

AfterNodes(w) == IF workers[w].rels = <<>> THEN "sync" ELSE "rels"

RecordUpsert(hist, id, props) == {h \in hist : h.id # id} \cup {[id |-> id, props |-> props]}

\* persist_graph: one node upsert.  The statement's match ran at some moment
\* since the previous step; nodes are never deleted, so it found what the
\* store held then (matched) or what it holds now.
WorkerUpsertNode(w) ==
    /\ workers[w].pc = "nodes"
    /\ LET i == workers[w].i
           node == workers[w].nodes[i]
           props == BaseProps(node, ExtractMetadata(workers[w].path))
       IN \E matched \in {workers[w].matched, MatchNode(gnodes, node.id)} :
             /\ gnodes' = MergeNode(gnodes, node.id, props, node.node_type, matched)
             /\ lastUpsert' = RecordUpsert(lastUpsert, node.id,
                                           Override(props, [node_type |-> node.node_type]))
             /\ workers' =
                   IF i < Len(workers[w].nodes)
                   THEN [workers EXCEPT ![w].i = i + 1,
                            ![w].matched = MatchNode(gnodes', workers[w].nodes[i + 1].id)]
                   ELSE [workers EXCEPT ![w].pc = AfterNodes(w), ![w].i = 1,
                                        ![w].matched = FALSE]
    /\ UNCHANGED <<harness, observer, disk, gedges, chunks, uuids, bp, dispatched, passes, lastDone>>

\* persist_graph: one relationship upsert
WorkerUpsertRel(w) ==
    /\ workers[w].pc = "rels"
    /\ gedges' = MergeEdge(gnodes, gedges, workers[w].rels[workers[w].i])
    /\ workers' = IF workers[w].i < Len(workers[w].rels)
                  THEN [workers EXCEPT ![w].i = @ + 1]
                  ELSE [workers EXCEPT ![w].pc = "sync", ![w].i = 1]
    /\ UNCHANGED <<harness, observer, disk, gnodes, chunks, uuids, bp, dispatched, passes,
                   lastUpsert, lastDone>>

\* history: the entities the running reconciliation pass found missing (or,
\* before its graph query, may yet find missing) whose chunk sync ended after
\* the pass had fetched the existing source_ids
NoteRace(w) ==
    LET ids == {n.id : n \in {x \in Range(workers[w].nodes) : IsEmbeddable(x)}}
    IN CASE bp.pc = "query" -> [bp EXCEPT !.raced = @ \cup ids]
         [] bp.pc = "fill" -> [bp EXCEPT !.raced = @ \cup (ids \cap bp.missing)]
         [] OTHER -> bp

\* code_chunk_collection.data.insert(...) returns, or raises
InsertOutcomes == {"inserted", "raised"}

\* self.embedder is the remote provider (the default of get_embedder)
\* sync_code_chunks_to_weaviate: the filter and the embedder call (pc "sync"),
\* then one chunk insert per step (pc "insert"; an insert that raises is
\* caught and printed, and the loop goes on); then step 4 of process_file
\* (pc "link"): link_file_to_commit when a commit hash was given, and return
WorkerSyncChunks(w) ==
    /\ workers[w].pc \in {"sync", "insert", "link"}
    /\ CASE workers[w].pc = "sync" ->
               /\ IF FilterRaises(workers[w].nodes)
                  THEN Finish(w, "raised")
                  ELSE /\ workers' = [workers EXCEPT
                                         ![w].pc = IF NodesToEmbed(workers[w].nodes) = <<>>
                                                   THEN "link" ELSE "insert",
                                         ![w].i = 1]
                       /\ UNCHANGED lastDone
               /\ UNCHANGED <<gnodes, gedges, chunks, uuids>>
         [] workers[w].pc = "insert" ->
               LET nodes_to_embed == NodesToEmbed(workers[w].nodes)
                   contents == ContentsToEmbed(workers[w].text, nodes_to_embed)
                   vectors == GeminiEmbed(contents, input.response).vectors
                   i == workers[w].i
                   node == nodes_to_embed[i]
               IN \E result \in InsertOutcomes :
                     /\ chunks' = IF result = "inserted"
                                  THEN InsertChunk(chunks,
                                          Chunk(uuids + 1, node.id, workers[w].path,
                                                node.node_type, node.name, node.start_line,
                                                node.end_line, contents[i], vectors[i]))
                                  ELSE chunks
                     /\ uuids' = uuids + 1
                     /\ workers' = [workers EXCEPT
                                       ![w].failed = IF result = "raised" THEN @ + 1 ELSE @,
                                       ![w].i = IF i < Len(nodes_to_embed) THEN i + 1 ELSE 1,
                                       ![w].pc = IF i < Len(nodes_to_embed)
                                                 THEN "insert" ELSE "link"]
                     /\ UNCHANGED <<gnodes, gedges, lastDone>>
         [] OTHER ->
               LET linked == IF workers[w].commit # NoCommit
                             THEN LinkFileToCommit(gnodes, gedges, workers[w].path,
                                                   workers[w].commit)
                             ELSE [nodes |-> gnodes, edges |-> gedges]
               IN /\ gnodes' = linked.nodes
                  /\ gedges' = linked.edges
                  /\ Finish(w, "returned")
                  /\ UNCHANGED <<chunks, uuids>>
    /\ bp' = IF workers'[w].ev # workers[w].ev THEN NoteRace(w) ELSE bp
    /\ UNCHANGED <<harness, observer, disk, dispatched, passes, lastUpsert>>

\* persist_graph: session.run raises (the store is unreachable, the
\* transaction fails); nothing in persist_graph or process_file catches it
WorkerUpsertFails(w) ==
    /\ workers[w].pc \in {"nodes", "rels"}
    /\ Ended(w, "raised", workers[w].dropped + 1)
    /\ UNCHANGED <<harness, observer, disk, gnodes, gedges, chunks, uuids, bp, dispatched,
                   passes, lastUpsert>>

\* variant: _process_file without its try/except: the exception leaves the
\* handler and ends the thread that dispatches the events
HandlerReraise(obs, file_path) == [obs EXCEPT !.alive = FALSE]

\* CodeChangeHandler._process_file: except Exception as e: print(...)
HandlerCatch(obs, file_path) == [obs EXCEPT !.errors = @ \cup {file_path}]

\* on_modified / on_created for a file that exists and cannot be read (open
\* or read raises: a permission, a decoding error)
OnEventUnreadable ==
    \E p \in FilePaths :
        /\ observer.alive
        /\ GetParserForExt(SplitExt(p)) # NoParser
        /\ disk[p].exists
        /\ observer' = HandlerCatch(observer, p)
        /\ observer' # observer
        /\ UNCHANGED <<harness, disk, gnodes, gedges, chunks, uuids, workers, bp,
                       dispatched, passes, lastUpsert, lastDone>>

(***************************************************************************)
(* services/file_watcher.py: CodeChangeHandler on every event the observer *)
(* can deliver                                                             *)
(***************************************************************************)
\* DEFAULT_IGNORE_PATTERNS, tokenised like the paths ("*" is the wildcard)
IgnorePatterns ==
    << <<"__pycache__">>, <<"*", ".pyc">>, <<".pytest_cache">>, <<".venv">>, <<"venv">>,
       <<"node_modules">>, <<".git">>, <<".gitignore">>, <<"*", ".log">>, <<".env">>,
       <<".env", ".", "*">>, <<"*", ".tmp">>, <<"*", ".temp">>, <<".DS_Store">>,
       <<"Thumbs", ".db">>, <<"dist">>, <<"build">>, <<".cache">>, <<".mypy_cache">>,
       <<".coverage">>, <<"htmlcov">>, <<"*", ".egg-info">>, <<".tox">>, <<".nox">>,
       <<"weaviate_data">>, <<"ollama_data">> >>

\* _should_ignore_path: fnmatch of every component of the path (Path.parts),
\* then of the whole path, against every pattern
ShouldIgnorePath(path) ==
    LET RECURSIVE Fnmatch(_, _)
        Fnmatch(name, pat) ==
            IF pat = <<>> THEN name = <<>>
            ELSE IF Head(pat) = "*"
                 THEN Fnmatch(name, Tail(pat)) \/ (name # <<>> /\ Fnmatch(Tail(name), pat))
                 ELSE name # <<>> /\ Head(name) = Head(pat)
                                  /\ Fnmatch(Tail(name), Tail(pat))
        RECURSIVE Parts(_)
        Parts(p) ==
            IF p = <<>> THEN << <<>> >>
            ELSE LET rest == Parts(Tail(p))
                 IN IF Head(p) = "/" THEN << <<>> >> \o rest
                    ELSE << <<Head(p)>> \o Head(rest) >> \o Tail(rest)
        parts == Parts(path)
    IN \/ \E i \in 1..Len(parts), j \in 1..Len(IgnorePatterns) :
             Fnmatch(parts[i], IgnorePatterns[j])
       \/ \E j \in 1..Len(IgnorePatterns) : Fnmatch(path, IgnorePatterns[j])

\* the paths events are delivered for: a.py, b.rb, a.ts, c.py and build/a.py
EventPaths == {PyPath, RbPath, TsPath, <<"c", ".py">>, <<"build", "/", "a", ".py">>}

\* variant: handlers that look the parser up without asking
\* _should_ignore_path first
HandledUnfiltered(kind, event) ==
    LET path == IF kind = "moved" THEN event.dest_path ELSE event.src_path
    IN IF event.is_directory THEN [checks |-> <<"is_directory">>, process |-> <<>>]
       ELSE IF GetParserForExt(SplitExt(path)) = NoParser
            THEN [checks |-> <<"is_directory", "parser">>, process |-> <<>>]
       ELSE [checks |-> <<"is_directory", "parser">>,
             process |-> IF kind = "deleted" THEN <<>> ELSE path]

\* variant: on_moved that handles the path the file was moved away from
HandledMoveSource(kind, event) ==
    LET path == event.src_path
    IN IF event.is_directory THEN [checks |-> <<"is_directory">>, process |-> <<>>]
       ELSE IF ShouldIgnorePath(path)
            THEN [checks |-> <<"is_directory", "ignore">>, process |-> <<>>]
       ELSE IF GetParserForExt(SplitExt(path)) = NoParser
            THEN [checks |-> <<"is_directory", "ignore", "parser">>, process |-> <<>>]
       ELSE [checks |-> <<"is_directory", "ignore", "parser">>,
             process |-> IF kind = "deleted" THEN <<>> ELSE path]

\* variant: on_deleted that hands the path to _process_file like on_modified
HandledDeleteAsChange(kind, event) ==
    LET path == IF kind = "moved" THEN event.dest_path ELSE event.src_path
    IN IF event.is_directory THEN [checks |-> <<"is_directory">>, process |-> <<>>]
       ELSE IF ShouldIgnorePath(path)
            THEN [checks |-> <<"is_directory", "ignore">>, process |-> <<>>]
       ELSE IF GetParserForExt(SplitExt(path)) = NoParser
            THEN [checks |-> <<"is_directory", "ignore", "parser">>, process |-> <<>>]
       ELSE [checks |-> <<"is_directory", "ignore", "parser">>, process |-> path]

\* on_modified, on_created, on_moved (on the destination) and on_deleted (which
\* only logs): the checks the handler makes for the event, in order, and the
\* path it hands to _process_file (<<>>: none)
Handled(kind, event) ==
    LET path == IF kind = "moved" THEN event.dest_path ELSE event.src_path
    IN IF event.is_directory THEN [checks |-> <<"is_directory">>, process |-> <<>>]
       ELSE IF ShouldIgnorePath(path)
            THEN [checks |-> <<"is_directory", "ignore">>, process |-> <<>>]
       ELSE IF GetParserForExt(SplitExt(path)) = NoParser
            THEN [checks |-> <<"is_directory", "ignore", "parser">>, process |-> <<>>]
       ELSE [checks |-> <<"is_directory", "ignore", "parser">>,
             process |-> IF kind = "deleted" THEN <<>> ELSE path]

\* history: no event has been delivered yet
NoEvent ==
    [kind |-> "", event |-> [is_directory |-> FALSE, src_path |-> <<>>, dest_path |-> <<>>],
     checks |-> <<>>, process |-> <<>>]

\* the observer thread delivers one event of the kind to the handler;
\* observer.last keeps the event and what the handler did with it
Deliver(kind) ==
    \E is_directory \in BOOLEAN, src_path \in EventPaths, dest_path \in EventPaths :
        /\ observer.alive
        /\ (kind = "moved") = (src_path # dest_path)
        /\ LET event == [is_directory |-> is_directory, src_path |-> src_path,
                         dest_path |-> IF kind = "moved" THEN dest_path ELSE <<>>]
               h == Handled(kind, event)
           IN /\ IF h.process # <<>> THEN HandlerProcessFile(h.process)
                 ELSE UNCHANGED pipeline
              /\ observer' = [observer EXCEPT
                                 !.last = [kind |-> kind, event |-> event,
                                           checks |-> h.checks, process |-> h.process]]
        /\ UNCHANGED harness

(***************************************************************************)
(* services/file_watcher.py: FileWatcherService                            *)
(***************************************************************************)
MaxCalls == 2

\* paths_to_watch
Roots == {"src", "docs"}

\* FileWatcherService as constructed: the observer thread not started,
\* nothing scheduled; exists: which roots are there when start() looks
\* call: the call of start() or stop() made last, with the thread and the
\* watches it found
Constructed(exists) ==
    [alive |-> FALSE, errors |-> {}, last |-> NoEvent, exists |-> exists,
     thread |-> "initial", stop_set |-> FALSE, watches |-> [r \in Roots |-> 0],
     starts |-> 0, stops |-> 0,
     call |-> [op |-> "", outcome |-> "", thread |-> "initial",
               watches |-> [r \in Roots |-> 0]]]

\* variant: a start() that gives up with an error at a root that is missing
StartStrict ==
    /\ observer.starts < MaxCalls
    /\ observer.call.outcome # "running"
    /\ LET complete == \A r \in Roots : observer.exists[r]
           fresh == observer.thread = "initial" /\ complete
       IN observer' =
             [observer EXCEPT
                 !.watches = IF complete THEN [r \in Roots |-> @[r] + 1] ELSE @,
                 !.thread = IF fresh THEN "running" ELSE @,
                 !.alive = IF fresh THEN ~observer.stop_set ELSE @,
                 !.starts = @ + 1,
                 !.call = [op |-> "start",
                           outcome |-> IF fresh THEN "returned" ELSE "raised",
                           thread |-> observer.thread, watches |-> observer.watches]]
    /\ UNCHANGED <<harness, pipeline>>

\* start(): a new handler is scheduled for every root that exists, a missing
\* root is printed; then observer.start(), which raises RuntimeError for a
\* thread that was started before (threads can only be started once); a
\* thread started after stop() was asked for leaves its loop at once
Start ==
    /\ observer.starts < MaxCalls
    /\ observer.call.outcome # "running"
    /\ LET scheduled == [r \in Roots |-> IF observer.exists[r]
                                          THEN observer.watches[r] + 1
                                          ELSE observer.watches[r]]
           fresh == observer.thread = "initial"
       IN observer' =
             [observer EXCEPT
                 !.watches = scheduled,
                 !.thread = IF fresh THEN "running" ELSE @,
                 !.alive = IF fresh
                           THEN ~observer.stop_set /\ \E r \in Roots : scheduled[r] > 0
                           ELSE @,
                 !.starts = @ + 1,
                 !.call = [op |-> "start",
                           outcome |-> IF fresh THEN "returned" ELSE "raised",
                           thread |-> observer.thread, watches |-> observer.watches]]
    /\ UNCHANGED <<harness, pipeline>>

\* stop(), first half: observer.stop() sets the thread's stop event and
\* unschedules every watch; the caller goes on to observer.join()
StopRequest ==
    /\ observer.stops < MaxCalls
    /\ observer.call.outcome # "running"
    /\ observer' = [observer EXCEPT
                       !.stop_set = TRUE,
                       !.watches = [r \in Roots |-> 0],
                       !.stops = @ + 1,
                       !.call = [op |-> "stop", outcome |-> "running",
                                 thread |-> observer.thread,
                                 watches |-> observer.watches]]
    /\ UNCHANGED <<harness, pipeline>>

\* the observer thread sees its stop event after the dispatch it was in and
\* ends
ObserverExit ==
    /\ observer.thread = "running"
    /\ observer.stop_set
    /\ observer' = [observer EXCEPT !.thread = "terminated", !.alive = FALSE]
    /\ UNCHANGED <<harness, pipeline>>

\* variant: stop() without observer.join()
StopWithoutJoin ==
    /\ observer.call.op = "stop"
    /\ observer.call.outcome = "running"
    /\ observer' = [observer EXCEPT !.call.outcome = "returned"]
    /\ UNCHANGED <<harness, pipeline>>

\* stop(), second half: observer.join() returns when the thread has ended
\* and raises RuntimeError for a thread that was never started; then stop()
\* prints and returns
StopJoin ==
    /\ observer.call.op = "stop"
    /\ observer.call.outcome = "running"
    /\ observer.thread # "running"
    /\ observer' = [observer EXCEPT
                       !.call.outcome = IF observer.thread = "initial"
                                        THEN "raised" ELSE "returned"]
    /\ UNCHANGED <<harness, pipeline>>

(***************************************************************************)
(* The environment: an editor changing the watched tree                    *)
(***************************************************************************)
Write(p, t) ==
    /\ dispatched < MaxRuns
    /\ disk[p] # Present(t)
    /\ disk' = [disk EXCEPT ![p] = Present(t)]
    /\ UNCHANGED <<harness, observer, gnodes, gedges, chunks, uuids, workers, bp, dispatched,
                   passes, lastUpsert, lastDone>>

WriteFile == \E p \in EditedPaths : \E t \in DiskTexts : Write(p, t)

WriteClassFile == \E p \in EditedPaths : Write(p, ClassWithMethodText)

\* the editor saves a text that does not parse
WriteBrokenFile == \E p \in EditedPaths : Write(p, SyntaxErrorText)

DeleteFile ==
    \E p \in EditedPaths :
        /\ dispatched < MaxRuns
        /\ disk[p].exists
        /\ disk' = [disk EXCEPT ![p] = Absent]
        /\ UNCHANGED <<harness, observer, gnodes, gedges, chunks, uuids, workers, bp, dispatched,
                       passes, lastUpsert, lastDone>>

(***************************************************************************)
(* services/code_graph_service.py: backpopulate_missing_chunks             *)
(***************************************************************************)
BackpopTypes == {"CLASS", "FUNCTION", "METHOD"}

\* RETURN n.id, n.name, n.node_type, n.start_line, n.end_line, n.file_path:
\* a property the node does not carry comes back as null
Rec(n) == [id |-> n.id, props |-> n.props]

IsNull(rec, key) == key \notin DOMAIN rec.props

Candidates(gn) ==
    {Rec(n) : n \in {x \in gn : /\ "node_type" \in DOMAIN x.props
                                 /\ x.props.node_type \in BackpopTypes}}

\* rec[key] or default (None and 0 are both falsy)
IntOr(rec, key, default) ==
    IF IsNull(rec, key) \/ rec.props[key] = 0 THEN default ELSE rec.props[key]

IntOrZero(rec, key) == IF IsNull(rec, key) THEN 0 ELSE rec.props[key]

SeqOrEmpty(rec, key) == IF IsNull(rec, key) THEN <<>> ELSE rec.props[key]

\* open(file_path, "r") raises TypeError on None, FileNotFoundError on a
\* path that does not exist
OpenError(rec) ==
    IF IsNull(rec, "file_path") THEN "TypeError"
    ELSE IF rec.props.file_path \notin DOMAIN disk \/ ~disk[rec.props.file_path].exists
         THEN "FileNotFoundError"
         ELSE ""

OpenRaises(rec) == OpenError(rec) # ""

BackfillContent(rec, text) ==
    LET start == Max(0, IntOr(rec, "start_line", 1) - 1)
        end == Min(text.nlines, IntOr(rec, "end_line", start + 1))
    IN [of |-> text, from |-> start, to |-> end]

\* the chunk built in the fill loop: source_id is sid, the variable the scan
\* over the records left behind
BackfillChunk(uuid, sid, rec, text) ==
    LET content == BackfillContent(rec, text)
    IN Chunk(uuid, sid, rec.props.file_path, rec.props.node_type,
             SeqOrEmpty(rec, "name"), IntOrZero(rec, "start_line"),
             IntOrZero(rec, "end_line"), content, Embed(<<content>>)[1])

IdleBackpop ==
    [pc |-> "idle", existing |-> {}, cands |-> {}, missing |-> {}, remaining |-> {},
     sid |-> <<>>, failed |-> {}, inserted |-> 0, raced |-> {}]

BackpopStart ==
    /\ bp.pc \in {"idle", "done"}
    /\ passes < MaxPasses
    /\ bp' = [IdleBackpop EXCEPT !.pc = "fetch"]
    /\ passes' = passes + 1
    /\ UNCHANGED <<harness, observer, disk, gnodes, gedges, chunks, uuids, workers, dispatched,
                   lastUpsert, lastDone>>

\* 1. fetch all existing source_ids
BackpopFetch ==
    /\ bp.pc = "fetch"
    /\ bp' = [bp EXCEPT !.pc = "query",
                        !.existing = {c.properties.source_id : c \in chunks}]
    /\ UNCHANGED <<harness, observer, disk, gnodes, gedges, chunks, uuids, workers, dispatched,
                   passes, lastUpsert, lastDone>>

\* what the pass prints when fetch_objects raises
FetchFailure == [id |-> <<>>, exc |-> "fetch_objects"]

\* variant: step 1 without its try/except: the exception ends the pass
BackpopFetchAborting ==
    /\ bp.pc = "fetch"
    /\ bp' = [bp EXCEPT !.pc = "raised", !.failed = @ \cup {FetchFailure}]
    /\ UNCHANGED <<harness, observer, disk, gnodes, gedges, chunks, uuids, workers,
                   dispatched, passes, lastUpsert, lastDone>>

\* 1. with fetch_objects raising: the exception is printed and the pass goes
\* on with the source_ids collected so far, none
BackpopFetchFails ==
    /\ bp.pc = "fetch"
    /\ bp' = [bp EXCEPT !.pc = "query", !.existing = {},
                        !.failed = @ \cup {FetchFailure}]
    /\ UNCHANGED <<harness, observer, disk, gnodes, gedges, chunks, uuids, workers,
                   dispatched, passes, lastUpsert, lastDone>>

\* the pass returns: its locals are gone, its results stay as history
Returned(b) == [b EXCEPT !.pc = "done", !.existing = {}, !.remaining = {}, !.sid = <<>>]

\* 2. query the candidate nodes and scan them for the missing ones
BackpopQuery ==
    /\ bp.pc = "query"
    /\ LET cands == Candidates(gnodes)
           missing == {r \in cands : r.id \notin bp.existing}
           scanned == [bp EXCEPT !.cands = {r.id : r \in cands},
                                 !.missing = {r.id : r \in missing},
                                 !.raced = @ \cap {r.id : r \in missing}]
       IN IF missing = {}
          THEN bp' = Returned(scanned)
          ELSE bp' = [scanned EXCEPT !.pc = "fill", !.remaining = missing]
    /\ UNCHANGED <<harness, observer, disk, gnodes, gedges, chunks, uuids, workers, dispatched,
                   passes, lastUpsert, lastDone>>

Failure(rec) == [id |-> rec.id, exc |-> OpenError(rec)]

\* sid after the scan: the id of the record the store returned last.  The
\* store returns the records in an order of its own; which record came last
\* shows when the first chunk is built, and stays fixed from then on.
LastScanned(b) == IF b.sid = <<>> THEN b.cands ELSE {b.sid}

\* variant: the fill loop without its try/except: the first open() that
\* raises ends the pass
BackpopFillAborting ==
    /\ bp.pc = "fill"
    /\ \E rec \in bp.remaining :
          /\ OpenRaises(rec)
          /\ bp' = [bp EXCEPT !.pc = "raised", !.remaining = @ \ {rec}]
    /\ UNCHANGED <<harness, observer, disk, gnodes, gedges, chunks, uuids, workers,
                   dispatched, passes, lastUpsert, lastDone>>

\* the fill loop.  A record without file_path fails in open() before any file
\* or store is touched; one step takes these records together with the next
\* record that reaches the file system (the record scanned last comes last).
BackpopFill ==
    /\ bp.pc = "fill"
    /\ LET skipped == {r \in bp.remaining : IsNull(r, "file_path")}
           readers == bp.remaining \ skipped
           logged == [bp EXCEPT !.failed = @ \cup {Failure(r) : r \in skipped}]
       IN IF readers = {}
          THEN /\ bp' = Returned(logged)
               /\ UNCHANGED <<chunks, uuids>>
          ELSE \E rec \in readers : \E sid \in LastScanned(bp) :
                  /\ rec.id # sid \/ readers = {rec}
                  /\ LET left == readers \ {rec}
                         after(b) == IF left = {} THEN Returned(b)
                                     ELSE [b EXCEPT !.remaining = left, !.sid = sid]
                     IN IF OpenRaises(rec)
                        THEN /\ bp' = after([logged EXCEPT !.failed = @ \cup {Failure(rec)}])
                             /\ UNCHANGED <<chunks, uuids>>
                        ELSE /\ chunks' = InsertChunk(chunks,
                                            BackfillChunk(uuids + 1, sid, rec,
                                                          disk[rec.props.file_path].text))
                             /\ uuids' = uuids + 1
                             /\ bp' = after([logged EXCEPT !.inserted = @ + 1])
    /\ UNCHANGED <<harness, observer, disk, gnodes, gedges, workers, dispatched, passes,
                   lastUpsert, lastDone>>

(***************************************************************************)
(* Spec: the watcher, direct callers, the workers and reconciliation       *)
(* running concurrently.  SpecSeq: the same steps with one operation       *)
(* running at a time (sequential direct calls), and an editor that also    *)
(* saves a class with a method.                                            *)
(***************************************************************************)
InitPipeline ==
    /\ disk = [p \in FilePaths |-> IF p \in EditedPaths THEN Absent ELSE Present(FooText)]
    /\ gnodes = {}
    /\ gedges = {}
    /\ chunks = {}
    /\ uuids = 0
    /\ workers = [w \in WorkerIds |-> IdleWorker]
    /\ bp = IdleBackpop
    /\ dispatched = 0
    /\ passes = 0
    /\ lastUpsert = {}
    /\ lastDone = NoRun
    /\ observer = [alive |-> TRUE, errors |-> {}]

Init ==
    /\ input = NoInput
    /\ parsed = NotParsed
    /\ InitPipeline

\* variant: the executions share one executor thread, so only the oldest
\* running one advances
WorkerStepSerial ==
    WorkerUpsertNode(1) \/ WorkerUpsertRel(1) \/ WorkerSyncChunks(1)

\* variant: stop() cancels the executions: none advances once stop() has
\* returned
WorkerStepUntilStop ==
    /\ ~("call" \in DOMAIN observer
            /\ observer.call.op = "stop" /\ observer.call.outcome = "returned")
    /\ \E w \in WorkerIds :
          \/ WorkerUpsertNode(w)
          \/ WorkerUpsertRel(w)
          \/ WorkerSyncChunks(w)

WorkerStep ==
    \E w \in WorkerIds :
        \/ WorkerUpsertNode(w)
        \/ WorkerUpsertRel(w)
        \/ WorkerSyncChunks(w)

BackpopStep == BackpopFetch \/ BackpopQuery \/ BackpopFill

Begin == OnModified \/ OnCreated \/ OnMoved \/ DirectCall \/ BackpopStart

Environment == WriteFile \/ DeleteFile \/ OnDeleted

Next == Begin \/ WorkerStep \/ BackpopStep \/ Environment

Spec == Init /\ [][Next]_vars

NextSeq ==
    (NoneActive /\ Begin) \/ WorkerStep \/ BackpopStep \/ Environment \/ WriteClassFile

SpecSeq == Init /\ [][NextSeq]_vars

\* SpecFault: one process_file execution at a time, started by the watcher or
\* by a direct call with or without a commit hash, on texts that parse and on
\* a text that does not, with store calls and file reads that may raise
WorkerFault == \E w \in WorkerIds : WorkerUpsertFails(w)

BeginFault ==
    OnModified \/ OnCreated \/ OnMoved \/ DirectCall \/ DirectCallAtCommit
        \/ OnEventUnreadable

NextFault ==
    (NoneActive /\ BeginFault) \/ WorkerStep \/ WorkerFault \/ WriteFile \/ WriteBrokenFile

SpecFault == Init /\ [][NextFault]_vars

\* SpecEvents: a running watcher over a tree that holds every event path;
\* events of every kind, for files and for directories, one process_file
\* execution at a time
WatcherInit(obs) ==
    /\ input = NoInput
    /\ parsed = NotParsed
    /\ disk = [p \in EventPaths |-> Present(FooText)]
    /\ gnodes = {}
    /\ gedges = {}
    /\ chunks = {}
    /\ uuids = 0
    /\ workers = [w \in WorkerIds |-> IdleWorker]
    /\ bp = IdleBackpop
    /\ dispatched = 0
    /\ passes = 0
    /\ lastUpsert = {}
    /\ lastDone = NoRun
    /\ observer = obs

SpecEvents ==
    /\ WatcherInit([alive |-> TRUE, errors |-> {}, last |-> NoEvent])
    /\ [][\/ NoneActive /\ Deliver("created")
          \/ NoneActive /\ Deliver("modified")
          \/ NoneActive /\ Deliver("moved")
          \/ NoneActive /\ Deliver("deleted")
          \/ WorkerStep]_vars

\* SpecThreads: a running watcher whose events arrive while the executions
\* started for earlier events are still running
SpecThreads ==
    /\ WatcherInit([alive |-> TRUE, errors |-> {}, last |-> NoEvent])
    /\ [][OnModified \/ OnCreated \/ WorkerStep \/ WriteFile]_vars

\* SpecLifecycle: start() and stop() called in any order and more than once
\* on a service whose roots exist or not, with events delivered while the
\* observer thread runs
SpecLifecycle ==
    /\ \E exists \in [Roots -> BOOLEAN] : WatcherInit(Constructed(exists))
    /\ [][\/ Start
          \/ StopRequest
          \/ StopJoin
          \/ ObserverExit
          \/ NoneActive /\ Deliver("modified")
          \/ WorkerStep]_vars

(***************************************************************************)
(* SpecParse: each plugin's parse() applied to every bounded text.         *)
(***************************************************************************)
InitParse ==
    /\ input \in {[plugin |-> "python", path |-> PyPath, text |-> t] : t \in PySources}
                   \cup {[plugin |-> "typescript", path |-> TsPath, text |-> t] :
                            t \in TsSources}
    /\ parsed = NotParsed
    /\ InitPipeline

ParsePython ==
    /\ ~parsed.done
    /\ input.plugin = "python"
    /\ LET r == PythonParse(input.path, input.text)
       IN parsed' = [done |-> TRUE, nodes |-> r.nodes, relationships |-> r.relationships]
    /\ UNCHANGED <<input, observer, pipeline>>

ParseTypeScript ==
    /\ ~parsed.done
    /\ input.plugin = "typescript"
    /\ LET r == TypeScriptParse(input.path, input.text)
       IN parsed' = [done |-> TRUE, nodes |-> r.nodes, relationships |-> r.relationships]
    /\ UNCHANGED <<input, observer, pipeline>>

NextParse == ParsePython \/ ParseTypeScript

SpecParse == InitParse /\ [][NextParse]_vars

\* SpecStall: SpecThreads where the execution started for the first event may
\* stay in one of its store calls for ever, while every thread that is not in
\* such a call is scheduled: the running list keeps start order, so the first
\* execution is workers[1] for as long as it runs
SpecStall ==
    /\ WatcherInit([alive |-> TRUE, errors |-> {}, last |-> NoEvent])
    /\ [][OnModified \/ OnCreated \/ WorkerStep \/ WriteFile]_vars
    /\ WF_vars(WorkerStep /\ (workers[1].ev = 1 => workers'[1] = workers[1]))

\* SpecSnapshot: SpecEvents for create and modify events, with an editor that
\* saves and deletes the file while the execution started for the last event
\* is running
SpecSnapshot ==
    /\ WatcherInit([alive |-> TRUE, errors |-> {}, last |-> NoEvent])
    /\ [][\/ NoneActive /\ Deliver("created")
          \/ NoneActive /\ Deliver("modified")
          \/ WorkerStep
          \/ WriteFile
          \/ DeleteFile]_vars

\* SpecReconcile: SpecSeq with a vector store whose fetch_objects may raise
SpecReconcile ==
    /\ Init
    /\ [][\/ NoneActive /\ OnModified
          \/ NoneActive /\ BackpopStart
          \/ WorkerStep
          \/ BackpopFetch
          \/ BackpopFetchFails
          \/ BackpopQuery
          \/ BackpopFill
          \/ WriteFile
          \/ WriteClassFile]_vars

\* SpecProvider: direct calls of process_file, one at a time, with a remote
\* provider that answers or that fails for every batch
SpecProvider ==
    /\ input \in {[NoInput EXCEPT !.response = r] : r \in {"answers", "raises"}}
    /\ parsed = NotParsed
    /\ InitPipeline
    /\ [][\/ NoneActive /\ DirectCall
          \/ WorkerStep
          \/ WriteFile
          \/ WriteClassFile]_vars

(***************************************************************************)
(* SpecEmbed: embed() of both providers applied to every bounded batch     *)
(* under every answer of the provider, and get_embedder() under every      *)
(* configuration and every behaviour of the two constructors.              *)
(***************************************************************************)
SpecEmbed ==
    /\ input \in {[call |-> "embed", provider |-> p, response |-> r,
                    texts |-> [i \in 1..n |-> f[i]]] :
                       p \in {"gemini", "local_hf"}, r \in {"answers", "raises"},
                       n \in 0..MaxBatch, f \in [1..MaxBatch -> {"class C", "def foo"}]}
                  \cup {[call |-> "get_embedder", provider |-> p, gemini_init |-> g,
                         response |-> r, local_init |-> l] :
                           p \in {"", "gemini", "Gemini", "local_hf", "openai"},
                           g \in {"constructs", "raises"}, r \in {"answers", "raises"},
                           l \in {"constructs", "raises"}}
    /\ parsed = NotParsed
    /\ InitPipeline
    /\ [][\/ /\ ~parsed.done
             /\ input.call = "embed"
             /\ parsed' = [done |-> TRUE,
                           result |-> IF input.provider = "gemini"
                                      THEN GeminiEmbed(input.texts, input.response)
                                      ELSE LocalEmbed(input.texts, input.response)]
             /\ UNCHANGED <<input, observer, pipeline>>
          \/ /\ ~parsed.done
             /\ input.call = "get_embedder"
             /\ parsed' = [done |-> TRUE,
                           result |-> GetEmbedder(input.provider, input.gemini_init,
                                                  input.response, input.local_init)]
             /\ UNCHANGED <<input, observer, pipeline>>]_vars

(***************************************************************************)
(* db/weaviate_client.py: WeaviateClientSingleton.  SpecClient: get_client  *)
(* is called MaxCalls times in succession against a server that is up from *)
(* its up_from-th connection attempt on; before that an attempt fails in   *)
(* from_params (no client object is made), in connect() or by running out  *)
(* of readiness polls.  A client is named by the number of the attempt     *)
(* that made it, 0 is None; parsed holds the singleton (client), the loop  *)
(* index of the running call (i, 0: no call running) and, as history, the  *)
(* attempts made, the clients for which is_ready() returned True, the      *)
(* calls ended and what the last one handed out.                           *)
(***************************************************************************)
Retries == 10

SpecClient ==
    /\ input \in {[up_from |-> k, failure |-> f] :
                     k \in 1..(Retries * MaxCalls + 1),
                     f \in {"from_params", "connect", "not_ready"}}
    /\ parsed = [client |-> 0, i |-> 0, made |-> 0, passed |-> {}, calls |-> 0,
                 reused |-> FALSE, result |-> [raised |-> FALSE, client |-> 0]]
    /\ InitPipeline
    /\ [][\* get_client is called: if self._client is None: ... return self._client
          \/ /\ parsed.i = 0
             /\ parsed.calls < MaxCalls
             /\ parsed' = IF parsed.client = 0
                          THEN [parsed EXCEPT !.i = 1]
                          ELSE [parsed EXCEPT
                                   !.calls = @ + 1,
                                   !.reused = TRUE,
                                   !.result = [raised |-> FALSE, client |-> parsed.client]]
             /\ UNCHANGED <<input, observer, pipeline>>
          \* one iteration of: for i in range(retries)
          \/ /\ parsed.i >= 1
             /\ LET n == parsed.made + 1
                    ready == n >= input.up_from
                    assigned == ready \/ input.failure # "from_params"
                    client == IF assigned THEN n ELSE parsed.client
                IN parsed' =
                     IF ready
                     THEN [parsed EXCEPT
                              !.client = n, !.i = 0, !.made = n,
                              !.passed = @ \cup {n}, !.calls = @ + 1,
                              !.reused = FALSE,
                              !.result = [raised |-> FALSE, client |-> n]]
                     ELSE IF parsed.i < Retries
                     THEN [parsed EXCEPT !.client = client, !.i = @ + 1, !.made = n]
                     ELSE [parsed EXCEPT
                              !.client = client, !.i = 0, !.made = n,
                              !.calls = @ + 1, !.reused = FALSE,
                              !.result = [raised |-> TRUE, client |-> 0]]
             /\ UNCHANGED <<input, observer, pipeline>>]_vars

(***************************************************************************)
(* Parser claims                                                           *)
(***************************************************************************)
ContainsEdges(rels) ==
    {<<r.source_id, r.target_id>> : r \in {x \in Range(rels) : x.type = "CONTAINS"}}

ContainsParents(rels, id) == {e[1] : e \in {x \in ContainsEdges(rels) : x[2] = id}}

RECURSIVE ClimbsToFile(_, _, _, _)
ClimbsToFile(rels, root, id, fuel) ==
    \/ id = root
    \/ /\ fuel > 0
       /\ \E p \in ContainsParents(rels, id) : ClimbsToFile(rels, root, p, fuel - 1)

ScopedNodes(nodes) == {n \in Range(nodes) : n.node_type \notin {"FILE", "IMPORT"}}

ContainsIsTree(path, nodes, rels) ==
    /\ \A n \in ScopedNodes(nodes) :
          /\ Cardinality(ContainsParents(rels, n.id)) = 1
          /\ ClimbsToFile(rels, path, n.id, Len(nodes))
    /\ \A e \in ContainsEdges(rels) : e[1] # e[2]

ScopedConstructs(items) ==
    {i \in 1..Len(items) : items[i].kind \notin {"import", "import2"}}

\* C2: in every parse result of every plugin the CONTAINS relationships form a
\* tree rooted at the FILE node: each non-FILE, non-IMPORT node has exactly one
\* CONTAINS parent, no CONTAINS edge is a self-loop, and every node climbs to
\* the FILE node.
C2_ContainsTree ==
    parsed.done => ContainsIsTree(input.path, parsed.nodes, parsed.relationships)

\* C17: for every plugin the registry holds, parse() on a text with a syntax
\* error returns (it does not raise) an empty node list and an empty
\* relationship list: no FILE node, no partial graph.
C17_SyntaxErrorParsesEmpty ==
    (parsed.done /\ ~input.text.ok /\ input.plugin \in Range(Parsers)) =>
        /\ parsed.nodes = <<>>
        /\ parsed.relationships = <<>>

C17_Witness ==
    /\ parsed.done
    /\ ~input.text.ok
    /\ input.plugin = "python"
    /\ input.plugin = GetParserForExt(SplitExt(input.path))

\* C7: within one parse node ids are unique per construct: the number of
\* emitted non-IMPORT nodes is the number of class/function/method constructs
\* plus one for the FILE node.
C7_UniqueIdPerConstruct ==
    (parsed.done /\ parsed.nodes # <<>>) =>
        Cardinality({n \in Range(parsed.nodes) : n.node_type # "IMPORT"})
            = Cardinality(ScopedConstructs(input.text.items)) + 1

(***************************************************************************)
(* Pipeline claims                                                         *)
(***************************************************************************)
NodeIds(gn) == {n.id : n \in gn}

ChunksOf(coll, id) == {c \in coll : c.properties.source_id = id}

EmbeddableIds(nodes) == {n.id : n \in {x \in Range(nodes) : IsEmbeddable(x)}}

\* the execution w re-processes the path and text of the execution that
\* finished last
Rerun(w) ==
    /\ Active(w)
    /\ lastDone.valid
    /\ lastDone.path = workers[w].path
    /\ lastDone.text = workers[w].text

\* C1: when process_file runs a second time in succession on the same path
\* and unchanged text, no step of the second run changes the set of node ids,
\* the set of (source_id, target_id, type) edges, the node count or the edge
\* count of the graph store.
C1_ReindexKeepsGraph ==
    [][(\E w \in WorkerIds : Rerun(w))
         => Snapshot(gnodes', gedges') = Snapshot(gnodes, gedges)]_vars

C1_Witness ==
    \E w \in WorkerIds :
        /\ Rerun(w)
        /\ workers[w].pc = "sync"
        /\ Len(workers[w].nodes) = 3
        /\ Len(workers[w].rels) = 2
        /\ Snapshot(gnodes, gedges).nodes = 3
        /\ Snapshot(gnodes, gedges).rels = 2

\* C3: when a reconciliation pass that ran alone is done, every
\* CLASS/FUNCTION/METHOD node id the graph query returned has at least one
\* chunk, unless its backing file was not on disk, and the pass inserted
\* exactly one chunk per id that was missing.
C3_BackpopCompletes ==
    bp.pc = "done" =>
        LET unreadable == {f.id : f \in {x \in bp.failed : x.exc = "FileNotFoundError"}}
        IN /\ \A id \in bp.cands \ unreadable : ChunksOf(chunks, id) # {}
           /\ bp.inserted = Cardinality(bp.missing \ unreadable)

\* C4: a process_file execution that ran alone on a parse with n nodes of
\* type CLASS, FUNCTION, METHOD or BLOCK returns having inserted exactly n
\* chunks, one per such node with that node's id as source_id (class with one
\* method: 3 graph nodes, 2 CONTAINS edges, 2 chunks).
C4_OneChunkPerCandidate ==
    (lastDone.valid /\ dispatched = 1 /\ passes = 0 /\ NoneActive) =>
        LET r == ParseCodeToGraph(lastDone.path, lastDone.text)
            ids == EmbeddableIds(r.nodes)
        IN /\ lastDone.outcome = "returned"
           /\ Cardinality(chunks) = Cardinality(ids)
           /\ \A id \in ids : Cardinality(ChunksOf(chunks, id)) = 1
           /\ lastDone.text = ClassWithMethodText =>
                 /\ Cardinality(gnodes) = 3
                 /\ Cardinality(gedges) = 2
                 /\ Cardinality(chunks) = 2

\* C5: no step removes or changes a chunk of the vector store, and when a
\* process_file execution that re-processes the entities of the previous one
\* ends its chunk sync, each of its embeddable entities has at least two
\* chunks with its source_id (the earlier one and the new one).
C5_AppendOnlyDuplicates ==
    [][/\ chunks \subseteq chunks'
       /\ \A w \in WorkerIds :
             (Rerun(w) /\ workers[w].pc \in {"sync", "insert"} /\ workers'[w].ev # workers[w].ev)
                => \A id \in EmbeddableIds(workers[w].nodes) :
                      Cardinality(ChunksOf(chunks', id)) >= 2]_vars

\* C6: no step of the pipeline (process_file, reconciliation, watcher events,
\* edits of the tree) removes a node id from the graph store.
C6_NodeIdsOnlyGrow == [][NodeIds(gnodes) \subseteq NodeIds(gnodes')]_vars

C6_Witness ==
    /\ NoneActive
    /\ lastDone.valid
    /\ lastDone.text = BarText
    /\ disk[PyPath] = Present(BarText)
    /\ PyPath \o <<":", "foo">> \in NodeIds(gnodes)
    /\ PyPath \o <<":", "bar">> \in NodeIds(gnodes)

\* C8: under every interleaving of the workers' store statements the graph
\* store never holds two nodes with the same id nor two edges with the same
\* (source_id, target_id, type).
C8_NoDuplicates ==
    /\ \A n1 \in gnodes : \A n2 \in gnodes : n1.id = n2.id => n1 = n2
    /\ \A e1 \in gedges : \A e2 \in gedges :
          (e1.a[1] = e2.a[1] /\ e1.b[1] = e2.b[1] /\ e1.label = e2.label) => e1 = e2

\* C9: for each node id the stored properties are those of the upsert of that
\* id that executed last, whatever the order of the events that started the
\* workers.
C9_LastUpsertWins ==
    \A n \in gnodes : \E h \in lastUpsert : h.id = n.id /\ h.props = n.props

\* C10: when a reconciliation pass is done, every entity that was in the
\* graph and without chunk when the pass read the vector store, and whose
\* chunk sync by a concurrent process_file ended after that read, has two
\* chunks (one from each operation).
C10_RaceLeavesTwoChunks ==
    bp.pc = "done" =>
        \A id \in bp.raced : Cardinality(ChunksOf(chunks, id)) = 2

FailedIds(b) == {f.id : f \in b.failed}

\* C13: a reconciliation pass never ends by raising, and when it is done
\* every entity it found missing was processed: each one whose file could
\* not be opened has a logged failure, failures are logged for missing
\* entities only, and the others were filled (failures + inserts = missing).
C13_UnreadableSkipped ==
    /\ bp.pc # "raised"
    /\ bp.pc = "done" =>
          /\ FailedIds(bp) \subseteq bp.missing
          /\ Cardinality(FailedIds(bp)) + bp.inserted = Cardinality(bp.missing)

\* the file was deleted after indexing a class with a method; the pass found
\* both entities missing, failed on the first and went on to the second
C13_Witness ==
    /\ bp.pc = "done"
    /\ ~disk[PyPath].exists
    /\ bp.missing = {PyClassId(PyPath, PyPath, "C"),
                     PyFunctionId(PyPath, PyClassId(PyPath, PyPath, "C"), "m", TRUE)}
    /\ FailedIds(bp) = bp.missing

\* the nodes and relationships of a parse that the graph store lacks
LackingNodes(r) == {i \in 1..Len(r.nodes) : ~MatchNode(gnodes, r.nodes[i].id)}

LackingRels(r) ==
    {i \in 1..Len(r.relationships) :
        LET rel == r.relationships[i]
        IN /\ rel.source_id \in {n.id : n \in Range(r.nodes)}
           /\ rel.target_id \in {n.id : n \in Range(r.nodes)}
           /\ \A e \in gedges : ~(/\ e.a[1] = rel.source_id
                                   /\ e.b[1] = rel.target_id
                                   /\ e.label = rel.type)}

\* C14: when the first process_file execution on an empty store has ended,
\* the graph store lacks at most as many nodes and relationships of its parse
\* as upserts of the execution failed: a failed upsert costs its own item
\* only, the remaining ones are still made.
C14_UpsertFailureIsolated ==
    (lastDone.valid /\ dispatched = 1 /\ NoneActive) =>
        LET r == ParseCodeToGraph(lastDone.path, lastDone.text)
        IN Cardinality(LackingNodes(r)) + Cardinality(LackingRels(r)) <= lastDone.dropped

\* C15: when a process_file execution that ran alone has ended, it did not
\* raise, and with n nodes to embed of which k inserts failed the vector
\* store holds exactly n - k chunks.
C15_InsertFailureIsolated ==
    (lastDone.valid /\ dispatched = 1 /\ passes = 0 /\ NoneActive) =>
        LET r == ParseCodeToGraph(lastDone.path, lastDone.text)
            n == Len(NodesToEmbed(r.nodes))
            k == lastDone.failed
        IN /\ lastDone.outcome = "returned"
           /\ Cardinality(chunks) = n - k

C18_EmptyParseSkipsPersistence ==
    [][lastDone' # lastDone =>
         LET r == ParseCodeToGraph(lastDone'.path, lastDone'.text)
             running == {w \in WorkerIds : Active(w) /\ workers[w].ev = lastDone'.ev}
         IN IF r.nodes = <<>> /\ r.relationships = <<>>
            THEN /\ running = {}
                 /\ lastDone'.outcome = "returned"
                 /\ gnodes' = gnodes
                 /\ gedges' = gedges
                 /\ chunks' = chunks
            ELSE /\ running # {}
                 /\ lastDone'.dropped = 0 =>
                       \A i \in 1..Len(r.nodes) : MatchNode(gnodes', r.nodes[i].id)]_vars

\* a direct call at a commit on a text that does not parse, after the file
\* had been indexed: returned, no commit entity
C18_Witness ==
    /\ lastDone.valid
    /\ lastDone.commit \in CommitHashes
    /\ lastDone.path = PyPath
    /\ ~lastDone.text.ok
    /\ lastDone.ev = 2
    /\ lastDone.outcome = "returned"
    /\ gnodes # {}
    /\ CommitNodes(gnodes) = {}
    /\ chunks = {}

Supporting(ext) == {i \in 1..Len(Parsers) : SupportsExtension(Parsers[i], ext)}

\* C19: get_parser_for_ext returns the first plugin, in registration order,
\* that supports the extension, and no plugin when none does; for a `.rb`
\* file, which has no plugin, no process_file execution runs a persistence
\* step or raises, nothing of the file is in either store, and the observer
\* thread keeps running.
C19_UnsupportedExtensionSkipped ==
    /\ \A ext \in ExtTokens \cup {""} :
          IF Supporting(ext) = {}
          THEN GetParserForExt(ext) = NoParser
          ELSE \E i \in Supporting(ext) :
                  /\ \A j \in Supporting(ext) : i <= j
                  /\ GetParserForExt(ext) = Parsers[i]
    /\ \A w \in WorkerIds : Active(w) => workers[w].path # RbPath
    /\ \A n \in gnodes : ~IsPrefix(RbPath, n.id)
    /\ \A c \in chunks : c.properties.file_path # RbPath
    /\ (lastDone.valid /\ lastDone.path = RbPath) => lastDone.outcome = "returned"
    /\ observer.alive

\* a direct call on the `.rb` file returned, after the `.py` file was indexed
C19_Witness ==
    /\ lastDone.valid
    /\ lastDone.path = RbPath
    /\ GetParserForExt(SplitExt(lastDone.path)) = NoParser
    /\ lastDone.direct
    /\ lastDone.ev = 2
    /\ lastDone.outcome = "returned"
    /\ gnodes # {}

\* C20: whatever was raised while a handler read an event's file or while a
\* watcher thread ran process_file, the observer thread is running, no
\* execution started by the watcher ended by raising (one in which a step
\* raised ended logged), and an event for an existing parsable file still
\* starts a process_file execution whenever a thread can be started.
C20_WatcherSurvivesFailures ==
    /\ observer.alive
    /\ (lastDone.valid /\ ~lastDone.direct) =>
          /\ lastDone.outcome \in {"returned", "logged"}
          /\ lastDone.dropped > 0 => lastDone.outcome = "logged"
    /\ (dispatched < MaxRuns /\ FreeSlots # {} /\ disk[PyPath].exists) =>
          ENABLED (OnModified /\ dispatched' = dispatched + 1)

\* a read failure was logged, the first watcher execution ended logged after
\* a failed upsert, and the watcher's second execution is running
C20_Witness ==
    /\ observer.errors # {}
    /\ lastDone.valid
    /\ ~lastDone.direct
    /\ lastDone.ev = 1
    /\ lastDone.dropped = 1
    /\ lastDone.outcome = "logged"
    /\ \E w \in WorkerIds :
          /\ Active(w)
          /\ ~workers[w].direct
          /\ workers[w].ev = 2
          /\ workers[w].pc = "sync"

(***************************************************************************)
(* Watcher claims                                                          *)
(***************************************************************************)
EventPath(last) == IF last.kind = "moved" THEN last.event.dest_path ELSE last.event.src_path

Filtered(last) ==
    \/ last.event.is_directory
    \/ ShouldIgnorePath(EventPath(last))
    \/ GetParserForExt(SplitExt(EventPath(last))) = NoParser

Before(checks, a, b) ==
    \A j \in 1..Len(checks) : checks[j] = b => \E i \in 1..(j - 1) : checks[i] = a

\* C21: an event for a directory, for a path that matches an ignore pattern
\* (in one component or as a whole) or for an extension without registered
\* parser never reaches _process_file (no read, no process_file execution),
\* and the handler asks the ignore patterns before it looks the parser up
C21_FilteredEventsNotProcessed ==
    [][/\ dispatched' # dispatched => ~Filtered(observer'.last)
       /\ Filtered(observer'.last) => observer'.last.process = <<>>
       /\ ShouldIgnorePath(EventPath(observer'.last)) =>
             "parser" \notin Range(observer'.last.checks)
       /\ Before(observer'.last.checks, "ignore", "parser")]_vars

C21_Witness ==
    /\ observer.last.kind = "created"
    /\ ~observer.last.event.is_directory
    /\ observer.last.event.src_path = <<"build", "/", "a", ".py">>
    /\ observer.last.checks = <<"is_directory", "ignore">>
    /\ GetParserForExt(SplitExt(observer.last.event.src_path)) = "python"
    /\ disk[observer.last.event.src_path].exists
    /\ dispatched = 1
    /\ lastDone.valid
    /\ lastDone.path = PyPath

\* C22: every accepted create/modify event starts exactly one new execution
\* of process_file on a thread of its own, whatever is already running (for
\* the same path too), leaves the running ones as they are, and returns
\* while the new one has not yet made its first store call: the event
\* thread itself changes no store.
C22_OneWorkerPerAcceptedEvent ==
    [][dispatched' # dispatched =>
          /\ dispatched' = dispatched + 1
          /\ \E w \in WorkerIds :
                /\ ~Active(w)
                /\ workers'[w].pc = "nodes"
                /\ workers'[w].i = 1
                /\ workers'[w].ev = dispatched'
                /\ ~workers'[w].direct
                /\ workers'[w].text = disk[workers'[w].path].text
                /\ \A v \in WorkerIds \ {w} : workers'[v] = workers[v]
          /\ Cardinality({w \in WorkerIds : workers'[w].pc # "idle"})
                = Cardinality({w \in WorkerIds : Active(w)}) + 1
          /\ <<gnodes, gedges, chunks, uuids, lastUpsert, lastDone>>'
                = <<gnodes, gedges, chunks, uuids, lastUpsert, lastDone>>]_vars

C22_Witness ==
    /\ \A w \in WorkerIds : Active(w) /\ ~workers[w].direct /\ workers[w].path = PyPath
    /\ \E w \in WorkerIds : workers[w].pc = "rels"
    /\ dispatched = NumWorkers

\* the call of start() or stop() that ends in this step
CallEnds(op) ==
    /\ observer'.call.op = op
    /\ observer'.call.outcome \in {"returned", "raised"}
    /\ observer'.call # observer.call

\* C23: a second start(), a second stop() and a stop() without a start()
\* before it raise nothing and leave the observer as they found it: the same
\* thread state, the same scheduled watches.
C23_StartStopIdempotent ==
    [][/\ (CallEnds("start") /\ observer'.starts >= 2) =>
             /\ observer'.call.outcome = "returned"
             /\ observer'.watches = observer'.call.watches
             /\ observer'.thread = observer'.call.thread
       /\ (CallEnds("stop") /\ (observer'.stops >= 2 \/ observer'.starts = 0)) =>
             /\ observer'.call.outcome = "returned"
             /\ observer'.watches = observer'.call.watches
             /\ observer'.thread = observer'.call.thread]_vars

\* C24: stop() returns only when the observer thread has ended, and once it
\* has returned no event reaches the handler: no event is recorded and no
\* process_file execution is started.
C24_StopJoinsObserver ==
    [][(observer.call.op = "stop" /\ observer.call.outcome = "returned") =>
          /\ observer.thread = "terminated"
          /\ ~observer.alive
          /\ observer'.last = observer.last
          /\ dispatched' = dispatched]_vars

C24_Witness ==
    /\ observer.call.op = "stop"
    /\ observer.call.outcome = "returned"
    /\ observer.call.thread = "running"
    /\ observer.last.process = PyPath
    /\ dispatched = 1
    /\ \E w \in WorkerIds : Active(w)

\* C25: start() schedules every root that exists and no root that is
\* missing, whichever other roots are missing; a missing root makes no
\* start() raise (start() raises only for an observer thread that was
\* started before), and after the first start() the roots that exist are
\* observed by the running thread.
C25_MissingRootSkipped ==
    [][CallEnds("start") =>
          /\ \A r \in Roots :
                observer'.watches[r] =
                    observer'.call.watches[r] + (IF observer.exists[r] THEN 1 ELSE 0)
          /\ observer'.call.outcome = "raised" => observer'.call.thread # "initial"
          /\ observer'.call.thread = "initial" =>
                /\ observer'.call.outcome = "returned"
                /\ observer'.thread = "running"
                /\ (~observer.stop_set /\ \E r \in Roots : observer.exists[r])
                      => observer'.alive]_vars

C25_Witness ==
    /\ observer.call.op = "start"
    /\ observer.call.outcome = "returned"
    /\ ~observer.exists["docs"]
    /\ observer.watches = [r \in Roots |-> IF r = "src" THEN 1 ELSE 0]
    /\ observer.thread = "running"
    /\ observer.last.kind = "modified"
    /\ observer.last.process = PyPath
    /\ dispatched = 1

\* the execution the step starts, if it starts one
Started(path) ==
    /\ dispatched' = dispatched + 1
    /\ \E w \in WorkerIds :
          /\ ~Active(w)
          /\ workers'[w].pc = "nodes"
          /\ workers'[w].path = path
          /\ workers'[w].text = disk[path].text
          /\ \A v \in WorkerIds \ {w} : workers'[v] = workers[v]

C27_DeleteChangesNothing ==
    [][(NoneActive /\ observer'.last.kind = "deleted") =>
          /\ observer'.last.process = <<>>
          /\ UNCHANGED pipeline]_vars

C27_Witness ==
    /\ observer.last.kind = "deleted"
    /\ ~observer.last.event.is_directory
    /\ observer.last.event.src_path = PyPath
    /\ observer.last.checks = <<"is_directory", "ignore", "parser">>
    /\ lastDone.valid
    /\ lastDone.path = PyPath
    /\ \E n \in gnodes : n.id = PyPath
    /\ NoneActive

(***************************************************************************)
(* Embedding provider claims                                               *)
(***************************************************************************)
\* C28: embed of either provider returns, for every batch, one vector per
\* text in the order of the texts, and when the provider fails it does not
\* raise but returns an empty vector in every position.
C28_EmbedPositionalNeverRaises ==
    (parsed.done /\ input.call = "embed") =>
        /\ ~parsed.result.raised
        /\ Len(parsed.result.vectors) = Len(input.texts)
        /\ \A i \in 1..Len(input.texts) :
              parsed.result.vectors[i] =
                  IF input.response = "raises" THEN <<>>
                  ELSE [vector_of |-> input.texts[i]]

\* C29 as stated: with the remote provider configured, get_embedder returns
\* the remote provider exactly when its construction and a test embed with a
\* non-empty vector succeeded, and otherwise returns the local provider
\* without raising; with the local provider configured the remote one is
\* not tried; an unknown name is rejected with an error.
C29_FallbackNeverRaises ==
    (parsed.done /\ input.call = "get_embedder") =>
        LET r == parsed.result
            remote_ok == input.gemini_init = "constructs" /\ input.response = "answers"
        IN CASE input.provider \in {"", "gemini", "Gemini"} ->
                   /\ ~r.raised
                   /\ r.tried[1] = "gemini"
                   /\ r.embedder = IF remote_ok THEN "gemini" ELSE "local_hf"
             [] input.provider = "local_hf" ->
                   /\ ~r.raised
                   /\ r.tried = <<"local_hf">>
                   /\ r.embedder = "local_hf"
             [] OTHER -> r.raised /\ r.tried = <<>>

\* C29, amended: as above, but the fallback constructs the local provider
\* with nothing around it that catches: get_embedder returns the local
\* provider when that construction succeeds and raises its error when it
\* does not (the same holds with the local provider configured).
C29_FallbackToLocal ==
    (parsed.done /\ input.call = "get_embedder") =>
        LET r == parsed.result
            remote_ok == input.gemini_init = "constructs" /\ input.response = "answers"
            local_ok == input.local_init = "constructs"
        IN CASE input.provider \in {"", "gemini", "Gemini"} ->
                   /\ r.tried[1] = "gemini"
                   /\ remote_ok => (~r.raised /\ r.embedder = "gemini"
                                               /\ r.tried = <<"gemini">>)
                   /\ (~remote_ok /\ local_ok) => (~r.raised /\ r.embedder = "local_hf")
                   /\ (~remote_ok /\ ~local_ok) => r.raised
             [] input.provider = "local_hf" ->
                   /\ r.tried = <<"local_hf">>
                   /\ r.raised = ~local_ok
                   /\ local_ok => r.embedder = "local_hf"
             [] OTHER -> r.raised /\ r.tried = <<>>

C29_Witness ==
    /\ parsed.done
    /\ input.call = "get_embedder"
    /\ input.provider = "Gemini"
    /\ input.gemini_init = "constructs"
    /\ input.response = "raises"
    /\ input.local_init = "constructs"
    /\ parsed.result.embedder = "local_hf"
    /\ ~parsed.result.raised

\* C30: when the provider fails for the batch (embed returns empty
\* vectors), a process_file execution that ran alone returns without
\* raising, having inserted one chunk per node to embed, each with the empty
\* vector.
C30_EmptyVectorsStillInserted ==
    (lastDone.valid /\ dispatched = 1 /\ NoneActive /\ input.response = "raises") =>
        LET r == ParseCodeToGraph(lastDone.path, lastDone.text)
            ids == EmbeddableIds(r.nodes)
        IN /\ lastDone.outcome = "returned"
           /\ \A id \in ids : Cardinality(ChunksOf(chunks, id)) = 1
           /\ \A c \in chunks : c.vector = <<>>

(***************************************************************************)
(* Commit link, scope and import claims                                    *)
(***************************************************************************)
\* C31: when a process_file execution that was given a commit hash for a
\* text that parses has ended with every graph upsert done, the graph store
\* holds exactly one commit node with that hash and a MODIFIED edge from it
\* to the FILE node of the path; a store no execution with a commit hash has
\* written to holds no commit node.
C31_CommitLinkedToFile ==
    /\ (lastDone.valid /\ lastDone.commit # NoCommit /\ lastDone.dropped = 0
            /\ ParseCodeToGraph(lastDone.path, lastDone.text).nodes # <<>>) =>
          /\ Cardinality({n \in CommitNodes(gnodes) : n.props.hash = lastDone.commit}) = 1
          /\ \E e \in gedges : /\ e.label = "MODIFIED"
                               /\ e.a[1] = lastDone.commit
                               /\ e.b[1] = lastDone.path
    /\ (\A w \in WorkerIds : workers[w].commit = NoCommit)
          /\ (lastDone.commit = NoCommit) /\ dispatched <= 1
          => CommitNodes(gnodes) = {}

\* C32: in the result of either plugin, a node is a METHOD only if it stands
\* for a function-like construct whose innermost enclosing scope is a class,
\* and a FUNCTION only if it stands for one whose innermost enclosing scope
\* is the file, a function or another non-class container.
C32_MethodIffClassScope ==
    parsed.done =>
        LET items == input.text.items
            funcs == {i \in 1..Len(items) : items[i].kind \in {"func", "method"}}
            inClass(i) == items[i].parent # 0 /\ items[items[i].parent].kind = "class"
        IN \A j \in 1..Len(parsed.nodes) :
              LET n == parsed.nodes[j]
              IN /\ n.node_type = "METHOD" =>
                       \E i \in funcs : items[i].line = n.start_line /\ inClass(i)
                 /\ n.node_type = "FUNCTION" =>
                       \E i \in funcs : items[i].line = n.start_line /\ ~inClass(i)

\* C33: in the result of either plugin every IMPORT node is the target of an
\* IMPORTS edge from the FILE node, wherever the import stands, no CONTAINS
\* edge starts or ends at an IMPORT node, and a text with a single import-like
\* construct yields as many IMPORT nodes as that construct imports symbols.
C33_ImportNodePerSymbol ==
    (parsed.done /\ parsed.nodes # <<>>) =>
        LET items == input.text.items
            imports == {i \in 1..Len(items) : items[i].kind \in {"import", "import2"}}
            symbols(i) == IF items[i].kind = "import2" THEN 2 ELSE 1
            import_nodes == {n \in Range(parsed.nodes) : n.node_type = "IMPORT"}
            rels == Range(parsed.relationships)
        IN /\ \A n \in import_nodes :
                 \E r \in rels : /\ r.type = "IMPORTS"
                                 /\ r.source_id = input.path
                                 /\ r.target_id = n.id
           /\ \A r \in rels : \A n \in import_nodes :
                 r.type = "CONTAINS" => n.id \notin {r.source_id, r.target_id}
           /\ \A i \in imports :
                 Cardinality(imports) = 1 => Cardinality(import_nodes) = symbols(i)

(***************************************************************************)
(* Thread independence, snapshots and shutdown                             *)
(***************************************************************************)
Running(e) == \E w \in WorkerIds : Active(w) /\ workers[w].ev = e

\* C34: whatever the execution started for the first event does, and if it
\* never leaves a store call, the observer can deliver the next event and
\* start its execution, and every execution started for a later event ends.
C34_StalledWorkerBlocksOnlyItself ==
    /\ [](dispatched < MaxRuns => ENABLED <<OnModified>>_vars)
    /\ \A e \in 2..MaxRuns : Running(e) ~> ~Running(e)

C34_Witness ==
    /\ workers[1].ev = 1
    /\ workers[1].pc = "nodes"
    /\ workers[1].i = 1
    /\ lastDone.valid
    /\ lastDone.ev = 2
    /\ lastDone.outcome = "logged"

\* the store records the node n of an execution for file_path stands for
SnapshotRecord(file_path, n) ==
    [id |-> n.id,
     props |-> Override(BaseProps(n, ExtractMetadata(file_path)),
                        [node_type |-> n.node_type])]

\* C36: an execution started by the watcher works on the text the file had
\* when its event was handled: it is started only for a file that exists,
\* with that text; the text it holds never changes while it runs; every node
\* it upserts is a node of the parse of that text, whatever the file holds
\* (or if it is gone) by then; and an event for a file that no longer exists
\* starts nothing and writes nothing.
C36_WorkerIndexesSnapshot ==
    [][/\ dispatched' # dispatched =>
             \E w \in WorkerIds :
                /\ workers'[w].ev = dispatched'
                /\ disk[workers'[w].path].exists
                /\ workers'[w].text = disk[workers'[w].path].text
                /\ workers'[w].nodes
                      = ParseCodeToGraph(workers'[w].path, workers'[w].text).nodes
       /\ \A w \in WorkerIds : \A v \in WorkerIds :
             (Active(w) /\ workers'[v].ev = workers[w].ev) =>
                /\ workers'[v].text = workers[w].text
                /\ workers'[v].nodes = workers[w].nodes
       /\ (gnodes' # gnodes \/ lastUpsert' # lastUpsert) =>
             \E w \in WorkerIds :
                /\ Active(w)
                /\ \E n \in Range(ParseCodeToGraph(workers[w].path,
                                                   workers[w].text).nodes) :
                      /\ SnapshotRecord(workers[w].path, n) \in lastUpsert'
                      /\ \E x \in gnodes' :
                            /\ x.id = n.id
                            /\ x \notin gnodes \/ lastUpsert' = lastUpsert
                            /\ x.props.start_line = n.start_line
                            /\ x.props.end_line = n.end_line
       /\ (observer'.last.process # <<>>
              /\ ~disk[observer'.last.process].exists
              /\ observer'.last # observer.last) =>
             UNCHANGED pipeline]_vars

C36_Witness ==
    /\ workers[1].pc = "rels"
    /\ ~workers[1].direct
    /\ workers[1].path = PyPath
    /\ workers[1].text = FooText
    /\ ~disk[PyPath].exists
    /\ \E h \in lastUpsert : h.id = PyPath \o <<":", "foo">>
    /\ observer.last.process = PyPath
    /\ dispatched = 1

StopReturned == observer.call.op = "stop" /\ observer.call.outcome = "returned"

C38_FetchFailureContinues ==
    FetchFailure \in bp.failed =>
        /\ bp.pc # "raised"
        /\ bp.pc = "query" => bp.existing = {}
        /\ bp.pc \in {"fill", "done"} => bp.missing = bp.cands
        /\ bp.pc = "fill" => bp.cands = {r.id : r \in Candidates(gnodes)}
        /\ bp.pc = "done" =>
              Cardinality(bp.failed \ {FetchFailure}) + bp.inserted
                 = Cardinality(bp.missing)

C38_Witness ==
    /\ FetchFailure \in bp.failed
    /\ bp.pc = "done"
    /\ Cardinality(bp.missing) = 2
    /\ \A id \in bp.missing : \E f \in bp.failed : f.id = id

(***************************************************************************)
(* Vector-store client                                                     *)
(***************************************************************************)
\* C39: get_client hands out only clients for which is_ready() has returned
\* True; a call makes at most Retries connection attempts and raises after
\* the last one has failed; a call that follows a call that raised connects
\* again instead of handing out what is cached; a call that follows a call
\* that succeeded hands out the same client without a new attempt.
C39_OnlyReadyClients ==
    [][/\ parsed'.i <= Retries
       /\ (parsed'.calls # parsed.calls /\ ~parsed'.result.raised) =>
             parsed'.result.client \in parsed'.passed
       /\ (parsed'.calls # parsed.calls /\ parsed'.result.raised) =>
             parsed.i = Retries
       /\ (parsed.i = 0 /\ parsed.calls > 0 /\ parsed.result.raised) =>
             parsed'.i = 1
       /\ (parsed.i = 0 /\ parsed.calls > 0 /\ ~parsed.result.raised) =>
             /\ parsed'.result = parsed.result
             /\ parsed'.made = parsed.made]_vars

(***************************************************************************)
(* Registry coverage                                                       *)
(***************************************************************************)
\* C40: the registry returns, for every extension a plugin of the code base
\* supports, that plugin, and the handler passes a create or modify event
\* for a file with such an extension (that is not ignored) on to be read
\* and indexed.
C40_SupportedExtensionsRouted ==
    \A parser \in {"python", "typescript"} :
        (/\ observer.last.kind \in {"created", "modified"}
         /\ ~observer.last.event.is_directory
         /\ ~ShouldIgnorePath(observer.last.event.src_path)
         /\ SupportsExtension(parser, SplitExt(observer.last.event.src_path))) =>
            /\ GetParserForExt(SplitExt(observer.last.event.src_path)) = parser
            /\ observer.last.process = observer.last.event.src_path

====
